---- MODULE Spec2Model ----
(***************************************************************************)
(* A model of the container of michaeldzjap/container.js                   *)
(* (src/src/Container/Container.ts): the binding registry, the alias       *)
(* registry, the contextual binding store (a nested map), the recursive    *)
(* build algorithm with its build stack and its parameter override stack,  *)
(* extenders and the rebound callbacks.                                    *)
(*                                                                         *)
(* The container is one record `c` per operator (the fields are the        *)
(* fields of the class); every public method is an action that runs the    *)
(* whole call, nested calls included, and stores the container it leaves   *)
(* behind.  An exception is a result with err # NoErr that carries the     *)
(* container as it was when the exception was thrown: the code has no      *)
(* try/finally, so whatever was pushed before the throw stays pushed.      *)
(***************************************************************************)
EXTENDS Integers, Sequences, FiniteSets, TLC

VARIABLES
    contextual,      \* _contextual: the nested map (anchor, abstract) -> impl
    resolved,        \* _resolved: the set of keys marked resolved
    bindings,        \* _bindings: abstract -> [concrete, shared]
    instances,       \* _instances: abstract -> value
    aliases,         \* _aliases: alias -> abstract
    abstractAliases, \* _abstractAliases: abstract -> sequence of aliases
    extenders,       \* _extenders: abstract -> sequence of extender names
    buildStack,      \* _buildStack
    with,            \* _with: the parameter override stack
    reboundCallbacks,\* _reboundCallbacks: abstract -> sequence of callback names
    tags,            \* _tags: tag -> sequence of abstracts
    globalResolvingCallbacks,      \* _globalResolvingCallbacks
    globalAfterResolvingCallbacks, \* _globalAfterResolvingCallbacks
    resolvingCallbacks,      \* _resolvingCallbacks: type -> callbacks, in key order
    afterResolvingCallbacks, \* _afterResolvingCallbacks: type -> callbacks
    nextId,          \* identity of the next object created by `new`
    last,            \* the last public call: its arguments, result, fault, callback log
    prev,            \* the public call before the last one
    steps            \* number of public calls made so far

vars == <<contextual, resolved, bindings, instances, aliases, abstractAliases,
          extenders, buildStack, with, reboundCallbacks, tags,
          globalResolvingCallbacks, globalAfterResolvingCallbacks,
          resolvingCallbacks, afterResolvingCallbacks, nextId, last, prev, steps>>

-----------------------------------------------------------------------------
(* Bounds of the model *)

\* number of public calls in one behaviour
MaxSteps == 4
\* number of public calls in one behaviour of the rebinding specification
MaxRebindSteps == 5
\* number of public calls in one behaviour of the lifecycle specification
MaxLifecycleSteps == 5
\* number of public calls in one behaviour of the re-binding specification
MaxClearSteps == 6
\* number of public calls in one behaviour of the binding chain specification
MaxChainSteps == 5
\* number of public calls in one behaviour of the contextual alias
\* specification
MaxAliasSteps == 5
\* number of public calls in one behaviour of the flush and forget
\* specification
MaxForgetSteps == 5
\* depth of nested resolve/build calls after which the engine's call stack
\* is exhausted (a RangeError in the program)
MaxDepth == 12

-----------------------------------------------------------------------------
(* Identifiers and what reflection reports about them *)

\* Arr.last of an empty build stack
Undefined == "undefined"

\* constructible types
Classes == {"Repo", "Service", "Impl1", "Impl2", "X", "Y", "OptD", "OptN",
            "Mid", "Z", "Prim", "NoType", "OptP", "OptM", "OptR", "PrimD"}
\* interface tokens: never instantiable
Interfaces == {"IA", "IT"}
\* plain string names
Names == {"n1", "n2"}

Identifiers == Classes \cup Interfaces \cup Names

\* a parameter descriptor: name, declared type ("builtin" for a primitive,
\* "none" when no type can be derived), presence of a default value
Param(n, t, d) == [name |-> n, type |-> t, hasDefault |-> d]

\* the ordered constructor parameters of a constructible type
Ctor(cls) ==
    CASE cls = "Service" -> << Param("repo", "Repo", FALSE) >>
      [] cls = "Y"       -> << Param("a", "IA", FALSE) >>
      [] cls = "X"       -> << Param("a", "IA", FALSE), Param("y", "Y", FALSE) >>
      [] cls = "OptD"    -> << Param("t", "IT", TRUE) >>
      [] cls = "OptN"    -> << Param("t", "IT", FALSE) >>
      [] cls = "Mid"     -> << Param("t", "IT", FALSE) >>
      [] cls = "Z"       -> << Param("m", "Mid", TRUE), Param("a", "IA", FALSE) >>
      [] cls = "Prim"    -> << Param("n", "builtin", FALSE) >>
      [] cls = "NoType"  -> << Param("p", "none", FALSE) >>
      [] cls = "OptP"    -> << Param("d", "Prim", TRUE) >>
      [] cls = "OptM"    -> << Param("d", "NoType", TRUE) >>
      [] cls = "OptR"    -> << Param("d", "Repo", TRUE) >>
      [] cls = "PrimD"   -> << Param("n", "builtin", TRUE) >>
      [] OTHER           -> << >>

IsInstantiable(x) == x \in Classes

-----------------------------------------------------------------------------
(* Values *)

NoArgs == << >>

\* what `undefined` is as a value
Undef == [kind |-> "undef", id |-> 0, cls |-> "", args |-> NoArgs, ext |-> << >>]

\* the object `new cls(...args)` with identity id
Obj(id, cls, args) ==
    [kind |-> "obj", id |-> id, cls |-> cls, args |-> args, ext |-> << >>]

\* the default value of parameter `name`
DefaultValue(name) ==
    [kind |-> "default", id |-> 0, cls |-> name, args |-> NoArgs, ext |-> << >>]

\* a value made by the caller (an instance handed to instance(), a parameter)
Custom(n) ==
    [kind |-> "custom", id |-> n, cls |-> "", args |-> NoArgs, ext |-> << >>]

\* a value that converts to false: 0, the empty string, false or null
Falsy == [kind |-> "falsy", id |-> 0, cls |-> "", args |-> NoArgs, ext |-> << >>]

\* an identifier (a string or a symbol) used as a value
IdentifierValue(x) ==
    [kind |-> "identifier", id |-> 0, cls |-> x, args |-> NoArgs, ext |-> << >>]

\* an extender named e applied to value v: a decorator that keeps the identity
Extended(v, e) == [v EXCEPT !.ext = Append(@, e)]

-----------------------------------------------------------------------------
(* Native maps *)

EmptyMap == [k \in {} |-> Undef]

MapHas(m, k) == k \in DOMAIN m

MapSet(m, k, v) == [x \in (DOMAIN m) \cup {k} |-> IF x = k THEN v ELSE m[x]]

MapDelete(m, k) == [x \in (DOMAIN m) \ {k} |-> m[x]]

\* no parameter overrides: the default `[]` of make
NoParams == EmptyMap

-----------------------------------------------------------------------------
(* Faults *)

NoErr == "none"
NotInstantiableErr   == "BindingResolutionError: not instantiable"
UnresolvableErr      == "BindingResolutionError: unresolvable dependency"
MissingTypeErr       == "BindingResolutionError: cannot get parameter type"
LogicErr             == "LogicError: aliased to itself"
BindingErr           == "BindingError: cannot bind a non-instantiable to itself"
TypeErr              == "TypeError: not a function"
RangeErr             == "RangeError: maximum call stack size exceeded"
EntryNotFoundErr     == "EntryNotFoundError"

IsBindingResolutionError(e) ==
    e \in {NotInstantiableErr, UnresolvableErr, MissingTypeErr}

-----------------------------------------------------------------------------
(* Concretes: what a binding or a contextual binding resolves with *)

\* no concrete (`undefined`)
NoConcrete == [kind |-> "undefined", abs |-> "", target |-> "", val |-> Undef]

\* a class token or an identifier given as it is
ClassConcrete(t) == [kind |-> "class", abs |-> "", target |-> t, val |-> Undef]

\* the closure _getClosure(abstract, concrete) wraps a class token in
ClosureConcrete(a, t) == [kind |-> "closure", abs |-> a, target |-> t, val |-> Undef]

\* a factory function of the caller; it returns a new object of class f
FactoryConcrete(f) == [kind |-> "factory", abs |-> "", target |-> f, val |-> Undef]

\* a plain value (given to a primitive parameter)
ValueConcrete(v) == [kind |-> "value", abs |-> "", target |-> "", val |-> v]

\* a nested native Map handed out where a concrete was expected
MapConcrete == [kind |-> "map", abs |-> "", target |-> "", val |-> Undef]

\* isInstantiable(concrete)
IsInstantiableConcrete(k) == k.kind = "class" /\ IsInstantiable(k.target)

\* !isInstantiable(concrete) && concrete instanceof Function
IsPlainFunction(k) == k.kind \in {"closure", "factory"}

\* equals(concrete, abstract)
Equals(k, abstract) == k.kind = "class" /\ k.target = abstract

-----------------------------------------------------------------------------
(* ES5NestedMap, for key paths of one or two keys.  An entry of the top map *)
(* is either a value or a nested native Map.                                *)

ValueEntry(v) == [isMap |-> FALSE, val |-> v, sub |-> [k \in {} |-> NoConcrete]]

MapEntry(sub) == [isMap |-> TRUE, val |-> NoConcrete, sub |-> sub]

EmptyNestedMap == [k \in {} |-> ValueEntry(NoConcrete)]

\* set(keys, value): the new map, or the TypeError of calling set on a value
NestedMapSet(m, keys, value) ==
    IF Len(keys) = 1
    THEN [map |-> MapSet(m, keys[1], ValueEntry(value)), err |-> NoErr]
    ELSE
      IF keys[1] = keys[2]
      THEN \* the first key already equals Arr.last(keys): this.set(key, value), twice
           [map |-> MapSet(m, keys[1], ValueEntry(value)), err |-> NoErr]
      ELSE
        LET m1 == IF MapHas(m, keys[1]) THEN m
                  ELSE MapSet(m, keys[1], MapEntry([k \in {} |-> NoConcrete]))
            target == m1[keys[1]]
        IN  IF target.isMap
            THEN [map |-> MapSet(m1, keys[1],
                                 MapEntry(MapSet(target.sub, keys[2], value))),
                  err |-> NoErr]
            ELSE [map |-> m1, err |-> TypeErr]

\* has(keys)
NestedMapHas(m, keys) ==
    IF Len(keys) = 1
    THEN [val |-> MapHas(m, keys[1]), err |-> NoErr]
    ELSE
      IF ~MapHas(m, keys[1]) THEN [val |-> FALSE, err |-> NoErr]
      ELSE IF keys[1] = keys[2] THEN [val |-> TRUE, err |-> NoErr]
      ELSE LET target == m[keys[1]]
           IN  IF ~target.isMap THEN [val |-> FALSE, err |-> TypeErr]
               ELSE [val |-> MapHas(target.sub, keys[2]), err |-> NoErr]

\* get(keys), called after has(keys) was true
NestedMapGet(m, keys) ==
    IF Len(keys) = 1
    THEN IF MapHas(m, keys[1]) /\ ~m[keys[1]].isMap THEN m[keys[1]].val
         ELSE IF MapHas(m, keys[1]) THEN MapConcrete ELSE NoConcrete
    ELSE
      IF ~MapHas(m, keys[1]) THEN NoConcrete
      ELSE IF keys[1] = keys[2]
           THEN IF m[keys[1]].isMap THEN MapConcrete ELSE m[keys[1]].val
      ELSE LET target == m[keys[1]]
           IN  IF target.isMap /\ MapHas(target.sub, keys[2])
               THEN target.sub[keys[2]]
               ELSE NoConcrete

-----------------------------------------------------------------------------
(* The container as a record, and results of calls *)

EmptyContainer ==
    [contextual       |-> EmptyNestedMap,
     resolved         |-> {},
     bindings         |-> [k \in {} |-> [concrete |-> NoConcrete, shared |-> FALSE]],
     instances        |-> EmptyMap,
     aliases          |-> [k \in {} |-> ""],
     abstractAliases  |-> [k \in {} |-> << >>],
     extenders        |-> [k \in {} |-> << >>],
     buildStack       |-> << >>,
     with             |-> << >>,
     reboundCallbacks |-> [k \in {} |-> << >>],
     tags             |-> [k \in {} |-> << >>],
     globalResolvingCallbacks      |-> << >>,
     globalAfterResolvingCallbacks |-> << >>,
     resolvingCallbacks            |-> << >>,
     afterResolvingCallbacks       |-> << >>,
     nextId           |-> 1,
     log              |-> << >>]

\* a call that returned v and left the container c
Return(c, v) == [c |-> c, val |-> v, err |-> NoErr]

\* a call that threw e when the container was c
Throw(c, e) == [c |-> c, val |-> Undef, err |-> e]

\* Arr.last(array)
ArrLast(s) == IF Len(s) = 0 THEN Undefined ELSE s[Len(s)]

\* array.pop()
Pop(s) == IF Len(s) = 0 THEN s ELSE SubSeq(s, 1, Len(s) - 1)

-----------------------------------------------------------------------------
(* Aliases *)

\* isAlias(name)
IsAlias(c, name) == MapHas(c.aliases, name)

\* getAlias as it would be if it followed one alias edge only
GetAliasOneStep(c, abstract, seen) ==
    IF ~MapHas(c.aliases, abstract) THEN [id |-> abstract, err |-> NoErr]
    ELSE IF c.aliases[abstract] = abstract THEN [id |-> abstract, err |-> LogicErr]
    ELSE [id |-> c.aliases[abstract], err |-> NoErr]

RECURSIVE GetAliasFrom(_, _, _)
\* getAlias(abstract), seen being the names the recursion went through: an
\* alias cycle longer than one recurses until the call stack is exhausted
GetAliasFrom(c, abstract, seen) ==
    IF ~MapHas(c.aliases, abstract) THEN [id |-> abstract, err |-> NoErr]
    ELSE IF c.aliases[abstract] = abstract THEN [id |-> abstract, err |-> LogicErr]
    ELSE IF abstract \in seen THEN [id |-> abstract, err |-> RangeErr]
    ELSE GetAliasFrom(c, c.aliases[abstract], seen \cup {abstract})

GetAlias(c, abstract) == GetAliasFrom(c, abstract, {})

\* bound(abstract)
Bound(c, abstract) ==
    MapHas(c.bindings, abstract) \/ MapHas(c.instances, abstract)
        \/ IsAlias(c, abstract)

\* resolved(abstract), for an abstract whose alias chain ends
Resolved(c, abstract) ==
    LET a == IF IsAlias(c, abstract) THEN GetAlias(c, abstract).id ELSE abstract
    IN  a \in c.resolved \/ MapHas(c.instances, a)

\* isShared as it would be if the shared flag of the binding were ignored
IsSharedInstanceOnly(c, abstract) == MapHas(c.instances, abstract)

\* isShared(abstract)
IsShared(c, abstract) ==
    MapHas(c.instances, abstract)
        \/ (MapHas(c.bindings, abstract) /\ c.bindings[abstract].shared)

-----------------------------------------------------------------------------
(* Contextual bindings *)

\* _findInContextualBindings(abstract)
FindInContextualBindings(c, abstract) ==
    LET keys == << ArrLast(c.buildStack), abstract >>
        h == NestedMapHas(c.contextual, keys)
    IN  IF h.err # NoErr THEN [val |-> NoConcrete, err |-> h.err]
        ELSE IF h.val THEN [val |-> NestedMapGet(c.contextual, keys), err |-> NoErr]
        ELSE [val |-> NoConcrete, err |-> NoErr]

RECURSIVE FindInAliases(_, _, _)
\* the loop of _getContextualConcrete over the aliases of the abstract
FindInAliases(c, als, i) ==
    IF i > Len(als) THEN [val |-> NoConcrete, err |-> NoErr]
    ELSE LET b == FindInContextualBindings(c, als[i])
         IN  IF b.err # NoErr \/ b.val # NoConcrete THEN b
             ELSE FindInAliases(c, als, i + 1)

\* _getContextualConcrete(abstract)
GetContextualConcrete(c, abstract) ==
    LET b == FindInContextualBindings(c, abstract)
    IN  IF b.err # NoErr \/ b.val # NoConcrete THEN b
        ELSE IF ~MapHas(c.abstractAliases, abstract)
                  \/ Len(c.abstractAliases[abstract]) = 0
             THEN [val |-> NoConcrete, err |-> NoErr]
        ELSE FindInAliases(c, c.abstractAliases[abstract], 1)

\* the truthiness of a concrete (`!!concrete`, `if (concrete)`)
Truthy(k) ==
    /\ k # NoConcrete
    /\ (k.kind = "value" => k.val.kind \notin {"undef", "falsy"})

-----------------------------------------------------------------------------
(* The resolution engine *)

\* an entry of the log of one public call: a callback that ran, or a fault
Event(ev, who, val, trail) == [ev |-> ev, who |-> who, val |-> val, trail |-> trail]

Logged(c, e) == [c EXCEPT !.log = Append(@, e)]

\* _getLastParameterOverride()
GetLastParameterOverride(c) ==
    IF Len(c.with) = 0 THEN NoParams ELSE c.with[Len(c.with)]

\* _hasParameterOverride(dependency)
HasParameterOverride(c, dep) == dep.name \in DOMAIN GetLastParameterOverride(c)

\* _getConcrete as it would be without the fall back to the abstract itself
GetConcreteBoundOnly(c, abstract) ==
    LET concrete == GetContextualConcrete(c, abstract).val
    IN  IF concrete # NoConcrete THEN concrete
        ELSE IF MapHas(c.bindings, abstract) THEN c.bindings[abstract].concrete
        ELSE NoConcrete

\* _getConcrete as it would be if the ordinary binding were looked up before
\* the contextual binding
GetConcreteBindingFirst(c, abstract) ==
    IF MapHas(c.bindings, abstract) THEN c.bindings[abstract].concrete
    ELSE IF GetContextualConcrete(c, abstract).val # NoConcrete
    THEN GetContextualConcrete(c, abstract).val
    ELSE ClassConcrete(abstract)

\* _getConcrete(abstract), called when _getContextualConcrete does not throw
GetConcrete(c, abstract) ==
    LET concrete == GetContextualConcrete(c, abstract).val
    IN  IF concrete # NoConcrete THEN concrete
        ELSE IF MapHas(c.bindings, abstract) THEN c.bindings[abstract].concrete
        ELSE ClassConcrete(abstract)

\* _isBuildable(concrete, abstract)
IsBuildable(concrete, abstract) ==
    Equals(concrete, abstract) \/ IsPlainFunction(concrete)

\* _getExtenders(abstract), for a canonical abstract
GetExtenders(c, abstract) ==
    IF MapHas(c.extenders, abstract) THEN c.extenders[abstract] ELSE << >>

RECURSIVE ApplyExtendersNewestFirst(_, _, _)
\* the extender loop as it would be if it went through the extenders from
\* the last registered to the first
ApplyExtendersNewestFirst(object, exts, i) ==
    IF i > Len(exts) THEN object
    ELSE Extended(ApplyExtendersNewestFirst(object, exts, i + 1), exts[i])

RECURSIVE ApplyExtenders(_, _, _)
\* the extender loop of _resolve
ApplyExtenders(object, exts, i) ==
    IF i > Len(exts) THEN object
    ELSE ApplyExtenders(Extended(object, exts[i]), exts, i + 1)

\* _notInstantiable(concrete): the fault carries the build stack
NotInstantiable(c, target) ==
    Throw(Logged(c, Event("notInstantiable", target, Undef, c.buildStack)),
          NotInstantiableErr)

\* the values collected by _resolveDependencies
ArgList(args) == [kind |-> "args", id |-> 0, cls |-> "", args |-> args, ext |-> << >>]

\* _resolvePrimitive(parameter)
ResolvePrimitive(c, dep) ==
    LET cc == GetContextualConcrete(c, dep.name)
    IN  IF cc.err # NoErr THEN Throw(c, cc.err)
        ELSE IF Truthy(cc.val)
        THEN IF cc.val.kind = "factory"
             THEN Return([c EXCEPT !.nextId = @ + 1],
                         Obj(c.nextId, cc.val.target, NoArgs))
             ELSE IF IsInstantiableConcrete(cc.val)
             THEN \* a class is a Function: it is called without `new`
                  Throw(c, TypeErr)
             ELSE IF cc.val.kind = "class"
             THEN Return(c, IdentifierValue(cc.val.target))
             ELSE Return(c, cc.val.val)
        ELSE IF dep.hasDefault THEN Return(c, DefaultValue(dep.name))
        ELSE Throw(c, UnresolvableErr)

\* object instanceof type, for a constructible type
InstanceOfType(object, type) == object.kind = "obj" /\ object.cls = type

RECURSIVE FireCallbackArray(_, _, _, _, _)
\* _fireCallbackArray(object, callbacks), the callbacks being of the group ev
FireCallbackArray(c, ev, object, callbacks, i) ==
    IF i > Len(callbacks) THEN c
    ELSE FireCallbackArray(Logged(c, Event(ev, callbacks[i], object, << >>)),
                           ev, object, callbacks, i + 1)

\* one entry of a map from types to callbacks
TypeCallbacks(type, cbs) == [type |-> type, cbs |-> cbs]

RECURSIVE FireTypeCallbacks(_, _, _, _, _, _)
\* the forEach over the per-type callbacks, from entry i on: the callbacks
\* of every type that is the abstract or that the object is an instance of;
\* `object instanceof type` throws when the type is not a function
FireTypeCallbacks(c, ev, abstract, object, entries, i) ==
    IF i > Len(entries) THEN Return(c, Undef)
    ELSE IF entries[i].type = abstract
    THEN FireTypeCallbacks(FireCallbackArray(c, ev, object, entries[i].cbs, 1),
                           ev, abstract, object, entries, i + 1)
    ELSE IF ~IsInstantiable(entries[i].type) THEN Throw(c, TypeErr)
    ELSE IF InstanceOfType(object, entries[i].type)
    THEN FireTypeCallbacks(FireCallbackArray(c, ev, object, entries[i].cbs, 1),
                           ev, abstract, object, entries, i + 1)
    ELSE FireTypeCallbacks(c, ev, abstract, object, entries, i + 1)

\* _fireAfterResolvingCallbacks(abstract, object)
FireAfterResolvingCallbacks(c, abstract, object) ==
    FireTypeCallbacks(
        FireCallbackArray(c, "globalAfterResolving", object,
                          c.globalAfterResolvingCallbacks, 1),
        "afterResolving", abstract, object, c.afterResolvingCallbacks, 1)

\* the per-type pass of _fireResolvingCallbacks
FireTypeResolving(c, abstract, object) ==
    FireTypeCallbacks(c, "resolving", abstract, object, c.resolvingCallbacks, 1)

\* the call of _fireAfterResolvingCallbacks that ends _fireResolvingCallbacks,
\* r being what the passes before it gave
ThenAfterResolving(abstract, object, r) ==
    IF r.err # NoErr THEN r
    ELSE FireAfterResolvingCallbacks(r.c, abstract, object)

\* the callbacks of one type in a map from types to callbacks
CallbacksOf(entries, type) ==
    IF \E i \in 1..Len(entries) : entries[i].type = type
    THEN entries[CHOOSE i \in 1..Len(entries) : entries[i].type = type].cbs
    ELSE << >>

\* _fireResolvingCallbacks as it would be if the global after-resolving
\* callbacks ran at once after the global resolving callbacks, before the
\* per-type callbacks
FireResolvingCallbacksGlobalsFirst(c, abstract, object) ==
    LET r == FireTypeResolving(
                 FireCallbackArray(
                     FireCallbackArray(c, "globalResolving", object,
                                       c.globalResolvingCallbacks, 1),
                     "globalAfterResolving", object,
                     c.globalAfterResolvingCallbacks, 1),
                 abstract, object)
    IN  IF r.err # NoErr THEN r
        ELSE FireTypeCallbacks(r.c, "afterResolving", abstract, object,
                               r.c.afterResolvingCallbacks, 1)

\* _fireResolvingCallbacks(abstract, object)
FireResolvingCallbacks(c, abstract, object) ==
    ThenAfterResolving(abstract, object,
        FireTypeResolving(
            FireCallbackArray(c, "globalResolving", object,
                              c.globalResolvingCallbacks, 1),
            abstract, object))

\* the last statements of _resolve, f being what _fireResolvingCallbacks
\* gave: the resolved mark, the pop of the frame and `return object`
MarkResolved(abstract, object, f) ==
    IF f.err # NoErr THEN f
    ELSE Return([f.c EXCEPT !.resolved = @ \cup {abstract}, !.with = Pop(@)],
                object)

\* the end of _resolve as it would be if the instance were cached also when
\* parameters or a contextual override forced the build
ResolvedCachingAlways(abstract, needsContextualBuild, r) ==
    IF r.err # NoErr THEN r ELSE
    LET object == ApplyExtenders(r.val, GetExtenders(r.c, abstract), 1)
        c2 == IF IsShared(r.c, abstract)
              THEN [r.c EXCEPT !.instances = MapSet(@, abstract, object)]
              ELSE r.c
    IN  MarkResolved(abstract, object, FireResolvingCallbacks(c2, abstract, object))

\* the end of _resolve, r being what build or the nested make gave: the
\* extenders, the instance cache, the resolving callbacks, the resolved mark
\* and the pop of the frame
FinishResolve(abstract, needsContextualBuild, r) ==
    IF r.err # NoErr THEN r ELSE
    LET object == ApplyExtenders(r.val, GetExtenders(r.c, abstract), 1)
        c2 == IF IsShared(r.c, abstract) /\ ~needsContextualBuild
              THEN [r.c EXCEPT !.instances = MapSet(@, abstract, object)]
              ELSE r.c
    IN  MarkResolved(abstract, object, FireResolvingCallbacks(c2, abstract, object))

\* the end of build, r being what _resolveDependencies gave: the pop of the
\* build stack and the new instance
NewInstanceArgs(target, r) ==
    IF r.err # NoErr THEN r
    ELSE Return([r.c EXCEPT !.buildStack = Pop(@), !.nextId = @ + 1],
                Obj(r.c.nextId, target, r.val.args))

\* _resolveClass as it would be without its catch block
CatchNothing(dep, r) == r

\* the catch block of _resolveClass as it would be if only the
\* not-instantiable fault were caught
CatchNotInstantiableOnly(dep, r) ==
    IF r.err = NotInstantiableErr /\ dep.hasDefault
    THEN Return(r.c, DefaultValue(dep.name))
    ELSE r

\* the catch block of _resolveClass, r being what make gave
CatchResolveClass(dep, r) ==
    IF IsBindingResolutionError(r.err) /\ dep.hasDefault
    THEN Return(r.c, DefaultValue(dep.name))
    ELSE r

RECURSIVE Resolve(_, _, _, _)
RECURSIVE Build(_, _, _)
RECURSIVE ResolveClass(_, _, _)
RECURSIVE ResolveDependencies(_, _, _, _, _)
RECURSIVE PushResult(_, _, _, _, _)

\* _resolve(abstract, parameters) with d call frames left
Resolve(c, abstract0, parameters, d) ==
    IF d = 0 THEN Throw(c, RangeErr) ELSE
    LET ga == GetAlias(c, abstract0) IN
    IF ga.err # NoErr THEN Throw(c, ga.err) ELSE
    LET abstract == ga.id
        cc == GetContextualConcrete(c, abstract)
    IN
    IF cc.err # NoErr THEN Throw(c, cc.err) ELSE
    LET needsContextualBuild == (DOMAIN parameters # {}) \/ Truthy(cc.val) IN
    IF MapHas(c.instances, abstract) /\ ~needsContextualBuild
    THEN Return(c, c.instances[abstract])
    ELSE
    LET c1 == [c EXCEPT !.with = Append(@, parameters)]
        concrete == GetConcrete(c1, abstract)
    IN  FinishResolve(abstract, needsContextualBuild,
            IF IsBuildable(concrete, abstract)
            THEN Build(c1, concrete, d - 1)
            ELSE IF concrete.kind = "class"
            THEN Resolve(c1, concrete.target, NoParams, d - 1)
            ELSE NotInstantiable(c1, concrete.kind))

\* build(concrete) with d call frames left
Build(c, concrete, d) ==
    IF d = 0 THEN Throw(c, RangeErr) ELSE
    IF concrete.kind = "factory"
    THEN Return([c EXCEPT !.nextId = @ + 1], Obj(c.nextId, concrete.target, NoArgs))
    ELSE IF concrete.kind = "closure"
    THEN \* the closure of _getClosure, called with (this, last parameter override)
         IF concrete.abs = concrete.target
         THEN Build(c, ClassConcrete(concrete.target), d - 1)
         ELSE Resolve(c, concrete.target, GetLastParameterOverride(c), d - 1)
    ELSE IF ~IsInstantiableConcrete(concrete)
    THEN NotInstantiable(c, concrete.target)
    ELSE NewInstanceArgs(concrete.target,
             ResolveDependencies(
                 [c EXCEPT !.buildStack = Append(@, concrete.target)],
                 Ctor(concrete.target), 1, << >>, d - 1))

\* _resolveClass(parameter)
ResolveClass(c, dep, d) ==
    IF dep.type = "none" THEN Throw(c, MissingTypeErr)
    ELSE CatchResolveClass(dep, Resolve(c, dep.type, NoParams, d))

\* _resolveDependencies(dependencies): the loop from dependency i on
ResolveDependencies(c, dependencies, i, results, d) ==
    IF i > Len(dependencies) THEN Return(c, ArgList(results))
    ELSE IF HasParameterOverride(c, dependencies[i])
    THEN ResolveDependencies(c, dependencies, i + 1,
             Append(results, GetLastParameterOverride(c)[dependencies[i].name]), d)
    ELSE PushResult(dependencies, i, results, d,
             IF dependencies[i].type = "builtin"
             THEN ResolvePrimitive(c, dependencies[i])
             ELSE ResolveClass(c, dependencies[i], d))

\* results.push(r) and the next turn of the loop, or the fault r
PushResult(dependencies, i, results, d, r) ==
    IF r.err # NoErr THEN r
    ELSE ResolveDependencies(r.c, dependencies, i + 1, Append(results, r.val), d)

\* make(abstract, parameters), called from outside
Make(c, abstract, parameters) == Resolve(c, abstract, parameters, MaxDepth)

-----------------------------------------------------------------------------
(* Rebinding *)

\* _getReboundCallbacks(abstract)
GetReboundCallbacks(c, abstract) ==
    IF MapHas(c.reboundCallbacks, abstract) THEN c.reboundCallbacks[abstract]
    ELSE << >>

RECURSIVE FireRebound(_, _, _, _)
\* the callback loop of _rebound: callback(this, instance)
FireRebound(c, cbs, instance, i) ==
    IF i > Len(cbs) THEN c
    ELSE FireRebound(Logged(c, Event("rebound", cbs[i], instance, << >>)),
                     cbs, instance, i + 1)

\* the callbacks of _rebound, r being what make gave
ReboundWith(abstract, r) ==
    IF r.err # NoErr THEN r
    ELSE Return(FireRebound(r.c, GetReboundCallbacks(r.c, abstract), r.val, 1),
                Undef)

\* _rebound(abstract)
Rebound(c, abstract) == ReboundWith(abstract, Make(c, abstract, NoParams))

\* _dropStaleInstances(abstract)
DropStaleInstances(c, abstract) ==
    [c EXCEPT !.instances = MapDelete(@, abstract),
              !.aliases = MapDelete(@, abstract)]

\* bind(abstract, concrete, shared)
Bind(c, abstract, given, shared) ==
    LET c1 == DropStaleInstances(c, abstract) IN
    IF given = NoConcrete /\ ~IsInstantiable(abstract)
    THEN Throw(c1, BindingErr)
    ELSE
    LET concrete0 == IF given = NoConcrete THEN ClassConcrete(abstract) ELSE given
        concrete == IF IsInstantiableConcrete(concrete0)
                    THEN ClosureConcrete(abstract, concrete0.target)
                    ELSE concrete0
        c2 == [c1 EXCEPT !.bindings =
                  MapSet(@, abstract, [concrete |-> concrete, shared |-> shared])]
    IN  IF Resolved(c2, abstract) THEN Rebound(c2, abstract)
        ELSE Return(c2, Undef)

\* unbind(abstract)
Unbind(c, abstract) ==
    Return([c EXCEPT !.bindings = MapDelete(@, abstract),
                     !.instances = MapDelete(@, abstract),
                     !.resolved = @ \ {abstract}], Undef)

\* _removeAbstractAlias(searched)
RemoveAbstractAlias(c, searched) ==
    IF ~MapHas(c.aliases, searched) THEN c
    ELSE [c EXCEPT !.abstractAliases =
             [a \in DOMAIN @ |-> SelectSeq(@[a], LAMBDA al : al # searched)]]

\* `return instance`, unless the call r before it threw
ReturnAfter(r, instance) ==
    IF r.err # NoErr THEN r ELSE Return(r.c, instance)

\* instance as it would be if it fired the rebound callbacks when the
\* abstract was resolved, and not when it was bound
InstanceReboundIfResolved(c, abstract, instance) ==
    LET c1 == RemoveAbstractAlias(c, abstract)
        c2 == [c1 EXCEPT !.aliases = MapDelete(@, abstract),
                         !.instances = MapSet(@, abstract, instance)]
    IN  IF Resolved(c1, abstract) THEN ReturnAfter(Rebound(c2, abstract), instance)
        ELSE Return(c2, instance)

\* instance(abstract, instance)
Instance(c, abstract, instance) ==
    LET c1 == RemoveAbstractAlias(c, abstract)
        isBound == Bound(c1, abstract)
        c2 == [c1 EXCEPT !.aliases = MapDelete(@, abstract),
                         !.instances = MapSet(@, abstract, instance)]
    IN  IF isBound THEN ReturnAfter(Rebound(c2, abstract), instance)
        ELSE Return(c2, instance)

\* alias(abstract, alias)
Alias(c, abstract, alias) ==
    Return([c EXCEPT
               !.aliases = MapSet(@, alias, abstract),
               !.abstractAliases =
                   MapSet(@, abstract,
                          IF MapHas(@, abstract) THEN Append(@[abstract], alias)
                          ELSE << alias >>)],
           Undef)

\* addContextualBinding(concrete, abstract, implementation)
AddContextualBinding(c, concrete, abstract, implementation) ==
    LET ga == GetAlias(c, abstract) IN
    IF ga.err # NoErr THEN Throw(c, ga.err)
    ELSE LET s == NestedMapSet(c.contextual, << concrete, ga.id >>, implementation)
         IN  IF s.err # NoErr THEN Throw([c EXCEPT !.contextual = s.map], s.err)
             ELSE Return([c EXCEPT !.contextual = s.map], Undef)

\* when(concrete).needs(abstract).give(implementation), for one concrete
When(c, concrete, abstract, implementation) ==
    LET ga == GetAlias(c, concrete) IN
    IF ga.err # NoErr THEN Throw(c, ga.err)
    ELSE AddContextualBinding(c, ga.id, abstract, implementation)

\* extend as it would be if the decorator were also added to the pending
\* chain when an instance is cached
ExtendAlwaysPending(c, abstract0, e) ==
    LET ga == GetAlias(c, abstract0) IN
    IF ga.err # NoErr THEN Throw(c, ga.err) ELSE
    LET c1 == [c EXCEPT !.extenders =
                  MapSet(@, ga.id,
                         IF MapHas(@, ga.id) THEN Append(@[ga.id], e)
                         ELSE << e >>)]
    IN  IF MapHas(c.instances, ga.id)
        THEN Rebound([c1 EXCEPT !.instances =
                         MapSet(@, ga.id, Extended(c.instances[ga.id], e))],
                     ga.id)
        ELSE IF Resolved(c1, ga.id) THEN Rebound(c1, ga.id)
        ELSE Return(c1, Undef)

\* extend(abstract, closure), the closure being the decorator named e
Extend(c, abstract0, e) ==
    LET ga == GetAlias(c, abstract0) IN
    IF ga.err # NoErr THEN Throw(c, ga.err) ELSE
    LET abstract == ga.id IN
    IF MapHas(c.instances, abstract)
    THEN Rebound([c EXCEPT !.instances =
                     MapSet(@, abstract, Extended(c.instances[abstract], e))],
                 abstract)
    ELSE LET c1 == [c EXCEPT !.extenders =
                       MapSet(@, abstract,
                              IF MapHas(@, abstract) THEN Append(@[abstract], e)
                              ELSE << e >>)]
         IN  IF Resolved(c1, abstract) THEN Rebound(c1, abstract)
             ELSE Return(c1, Undef)

\* rebinding as it would be if the callback were stored under the name given
\* and not under the end of its alias chain
RebindingUnderGivenName(c, abstract0, cb) ==
    LET ga == GetAlias(c, abstract0) IN
    IF ga.err # NoErr THEN Throw(c, ga.err) ELSE
    LET c1 == [c EXCEPT !.reboundCallbacks =
                  MapSet(@, abstract0,
                         IF MapHas(@, abstract0) THEN Append(@[abstract0], cb)
                         ELSE << cb >>)]
    IN  IF Bound(c1, ga.id) THEN Make(c1, ga.id, NoParams)
        ELSE Return(c1, Undef)

\* rebinding(abstract, callback), the callback being named cb
Rebinding(c, abstract0, cb) ==
    LET ga == GetAlias(c, abstract0) IN
    IF ga.err # NoErr THEN Throw(c, ga.err) ELSE
    LET abstract == ga.id
        c1 == [c EXCEPT !.reboundCallbacks =
                  MapSet(@, abstract,
                         IF MapHas(@, abstract) THEN Append(@[abstract], cb)
                         ELSE << cb >>)]
    IN  IF Bound(c1, abstract) THEN Make(c1, abstract, NoParams)
        ELSE Return(c1, Undef)

\* forgetInstance(abstract)
ForgetInstance(c, abstract) ==
    Return([c EXCEPT !.instances = MapDelete(@, abstract)], Undef)

\* flush()
Flush(c) ==
    Return([c EXCEPT !.aliases = [k \in {} |-> ""],
                     !.resolved = {},
                     !.bindings = [k \in {} |-> [concrete |-> NoConcrete,
                                                 shared |-> FALSE]],
                     !.instances = EmptyMap,
                     !.abstractAliases = [k \in {} |-> << >>]], Undef)

\* bindIf as it would be if only the binding records counted as bound
BindIfNoRecord(c, abstract, given, shared) ==
    IF ~MapHas(c.bindings, abstract) THEN Bind(c, abstract, given, shared)
    ELSE Return(c, Undef)

\* bindIf(abstract, concrete, shared)
BindIf(c, abstract, given, shared) ==
    IF ~Bound(c, abstract) THEN Bind(c, abstract, given, shared)
    ELSE Return(c, Undef)

\* getAlias(abstract) called from outside: the identifier as a value
GetAliasCall(c, abstract) ==
    LET ga == GetAlias(c, abstract)
    IN  IF ga.err # NoErr THEN Throw(c, ga.err)
        ELSE Return(c, IdentifierValue(ga.id))

\* the catch block of get as it would be without the test of has(id)
CatchGetNotFound(id, r) ==
    IF r.err = NoErr THEN r ELSE Throw(r.c, EntryNotFoundErr)

\* the catch block of get(id), r being what _resolve gave
CatchGet(id, r) ==
    IF r.err = NoErr THEN r
    ELSE IF Bound(r.c, id) THEN r
    ELSE Throw(r.c, EntryNotFoundErr)

\* get(id)
Get(c, id) == CatchGet(id, Resolve(c, id, NoParams, MaxDepth))

\* the inner loop of tag as it would be if new abstracts were put first
PushTaggedFirst(c, tag, abstracts) ==
    [c EXCEPT !.tags = MapSet(@, tag,
                          abstracts \o (IF MapHas(@, tag) THEN @[tag] ELSE << >>))]

\* this._tags.get(tag).push(abstract) for every abstract, in order
PushTagged(c, tag, abstracts) ==
    [c EXCEPT !.tags = MapSet(@, tag,
                          (IF MapHas(@, tag) THEN @[tag] ELSE << >>) \o abstracts)]

RECURSIVE TagFrom(_, _, _, _)
\* the loop of tag(abstracts, tags) from tag i on
TagFrom(c, abstracts, tgs, i) ==
    IF i > Len(tgs) THEN c
    ELSE TagFrom(PushTagged(c, tgs[i], abstracts), abstracts, tgs, i + 1)

\* tag(abstracts, tags)
Tag(c, abstracts, tgs) == Return(TagFrom(c, abstracts, tgs, 1), Undef)

\* an array of values
List(items) == [kind |-> "list", id |-> 0, cls |-> "", args |-> items, ext |-> << >>]

RECURSIVE TaggedFrom(_, _, _, _)
RECURSIVE TaggedPush(_, _, _, _)
\* the loop of tagged(tag) from abstract i on
TaggedFrom(c, abstracts, i, results) ==
    IF i > Len(abstracts) THEN Return(c, List(results))
    ELSE TaggedPush(abstracts, i, results, Make(c, abstracts[i], NoParams))

\* results.push(r) and the next turn of the loop, or the fault r
TaggedPush(abstracts, i, results, r) ==
    IF r.err # NoErr THEN r
    ELSE TaggedFrom(r.c, abstracts, i + 1, Append(results, r.val))

\* tagged(tag)
Tagged(c, tag) ==
    IF MapHas(c.tags, tag) THEN TaggedFrom(c, c.tags[tag], 1, << >>)
    ELSE Return(c, List(<< >>))

\* callbacks.get(type).push(callback), or callbacks.set(type, [callback])
AddTypeCallback(entries, type, cb) ==
    IF \E i \in 1..Len(entries) : entries[i].type = type
    THEN [i \in 1..Len(entries) |->
             IF entries[i].type = type
             THEN TypeCallbacks(type, Append(entries[i].cbs, cb))
             ELSE entries[i]]
    ELSE Append(entries, TypeCallbacks(type, << cb >>))

\* the key a per-type callback is stored under: getAlias of a string or of
\* a constructible type, the identifier itself otherwise (a symbol)
CallbackKey(c, abstract) ==
    IF abstract \in Interfaces THEN [id |-> abstract, err |-> NoErr]
    ELSE GetAlias(c, abstract)

\* resolving(callback): a callback for every type
ResolvingGlobal(c, cb) ==
    Return([c EXCEPT !.globalResolvingCallbacks = Append(@, cb)], Undef)

\* resolving(abstract, callback)
Resolving(c, abstract, cb) ==
    LET ga == CallbackKey(c, abstract) IN
    IF ga.err # NoErr THEN Throw(c, ga.err)
    ELSE Return([c EXCEPT !.resolvingCallbacks = AddTypeCallback(@, ga.id, cb)],
                Undef)

\* afterResolving(callback): a callback for every type
AfterResolvingGlobal(c, cb) ==
    Return([c EXCEPT !.globalAfterResolvingCallbacks = Append(@, cb)], Undef)

\* afterResolving(abstract, callback)
AfterResolving(c, abstract, cb) ==
    LET ga == CallbackKey(c, abstract) IN
    IF ga.err # NoErr THEN Throw(c, ga.err)
    ELSE Return([c EXCEPT !.afterResolvingCallbacks =
                    AddTypeCallback(@, ga.id, cb)], Undef)

-----------------------------------------------------------------------------
(* The state machine: one action per public method *)

\* the container the variables hold, with the log of the call about to start
Container ==
    [contextual       |-> contextual,
     resolved         |-> resolved,
     bindings         |-> bindings,
     instances        |-> instances,
     aliases          |-> aliases,
     abstractAliases  |-> abstractAliases,
     extenders        |-> extenders,
     buildStack       |-> buildStack,
     with             |-> with,
     reboundCallbacks |-> reboundCallbacks,
     tags             |-> tags,
     globalResolvingCallbacks      |-> globalResolvingCallbacks,
     globalAfterResolvingCallbacks |-> globalAfterResolvingCallbacks,
     resolvingCallbacks            |-> resolvingCallbacks,
     afterResolvingCallbacks       |-> afterResolvingCallbacks,
     nextId           |-> nextId,
     log              |-> << >>]

\* a contextual override is in force for the identifier: the lookup _resolve
\* makes for it finds one
OverrideInForce(c, abstract) ==
    LET ga == GetAlias(c, abstract)
    IN  /\ ga.err = NoErr
        /\ LET cc == GetContextualConcrete(c, ga.id)
           IN  cc.err # NoErr \/ Truthy(cc.val)

\* the record of a public call on container c0 that returned or threw r:
\* the arguments, the result, the fault, the callbacks that ran (log), whether
\* a contextual override was in force for the identifier when the call began
\* (ctx), the end of the identifier's alias chain then (canon), the
\* identity the next new object had then (firstId) and the cache entry of
\* the identifier then, or undefined (cached)
Call(op, abs, given, shared, params, c0, r) ==
    [op |-> op, abs |-> abs, given |-> given, shared |-> shared,
     params |-> params, val |-> r.val, err |-> r.err, log |-> r.c.log,
     ctx |-> OverrideInForce(c0, abs), canon |-> GetAlias(c0, abs).id,
     firstId |-> c0.nextId,
     cached |-> IF MapHas(c0.instances, abs) THEN c0.instances[abs] ELSE Undef]

NoCall ==
    Call("none", "", NoConcrete, FALSE, NoParams, EmptyContainer,
         Return(EmptyContainer, Undef))

\* the variables hold container k
Holds(k) ==
    /\ contextual = k.contextual
    /\ resolved = k.resolved
    /\ bindings = k.bindings
    /\ instances = k.instances
    /\ aliases = k.aliases
    /\ abstractAliases = k.abstractAliases
    /\ extenders = k.extenders
    /\ buildStack = k.buildStack
    /\ with = k.with
    /\ reboundCallbacks = k.reboundCallbacks
    /\ tags = k.tags
    /\ globalResolvingCallbacks = k.globalResolvingCallbacks
    /\ globalAfterResolvingCallbacks = k.globalAfterResolvingCallbacks
    /\ resolvingCallbacks = k.resolvingCallbacks
    /\ afterResolvingCallbacks = k.afterResolvingCallbacks
    /\ nextId = k.nextId

\* the public call returned or threw r: the container it left is the next
\* state, and `last` records the call
Commit(op, abs, given, shared, params, r) ==
    /\ contextual' = r.c.contextual
    /\ resolved' = r.c.resolved
    /\ bindings' = r.c.bindings
    /\ instances' = r.c.instances
    /\ aliases' = r.c.aliases
    /\ abstractAliases' = r.c.abstractAliases
    /\ extenders' = r.c.extenders
    /\ buildStack' = r.c.buildStack
    /\ with' = r.c.with
    /\ reboundCallbacks' = r.c.reboundCallbacks
    /\ tags' = r.c.tags
    /\ globalResolvingCallbacks' = r.c.globalResolvingCallbacks
    /\ globalAfterResolvingCallbacks' = r.c.globalAfterResolvingCallbacks
    /\ resolvingCallbacks' = r.c.resolvingCallbacks
    /\ afterResolvingCallbacks' = r.c.afterResolvingCallbacks
    /\ nextId' = r.c.nextId
    /\ last' = Call(op, abs, given, shared, params, Container, r)
    /\ prev' = last
    /\ steps' = steps + 1

DoMake(As, Ps) ==
    \E a \in As, p \in Ps :
        Commit("make", a, NoConcrete, FALSE, p, Make(Container, a, p))

DoBind(As, Gs) ==
    \E a \in As, g \in Gs, sh \in BOOLEAN :
        Commit("bind", a, g, sh, NoParams, Bind(Container, a, g, sh))

DoUnbind(As) ==
    \E a \in As :
        Commit("unbind", a, NoConcrete, FALSE, NoParams, Unbind(Container, a))

DoInstance(As, Vs) ==
    \E a \in As, v \in Vs :
        Commit("instance", a, ValueConcrete(v), FALSE, NoParams,
               Instance(Container, a, v))

DoAlias(As, Ns) ==
    \E a \in As, n \in Ns :
        Commit("alias", a, ClassConcrete(n), FALSE, NoParams,
               Alias(Container, a, n))

DoWhen(Cs, As, Is) ==
    \E k \in Cs, a \in As, i \in Is :
        Commit("when", a, i, FALSE, NoParams, When(Container, k, a, i))

DoExtend(As, Es) ==
    \E a \in As, e \in Es :
        Commit("extend", a, FactoryConcrete(e), FALSE, NoParams,
               Extend(Container, a, e))

DoRebinding(As, Cbs) ==
    \E a \in As, cb \in Cbs :
        Commit("rebinding", a, FactoryConcrete(cb), FALSE, NoParams,
               Rebinding(Container, a, cb))

DoForgetInstance(As) ==
    \E a \in As :
        Commit("forgetInstance", a, NoConcrete, FALSE, NoParams,
               ForgetInstance(Container, a))

DoFlush ==
    Commit("flush", "", NoConcrete, FALSE, NoParams, Flush(Container))

DoBindIf(As, Gs) ==
    \E a \in As, g \in Gs, sh \in BOOLEAN :
        Commit("bindIf", a, g, sh, NoParams, BindIf(Container, a, g, sh))

DoGetAlias(As) ==
    \E a \in As :
        Commit("getAlias", a, NoConcrete, FALSE, NoParams,
               GetAliasCall(Container, a))

DoGet(As) ==
    \E a \in As :
        Commit("get", a, NoConcrete, FALSE, NoParams, Get(Container, a))

\* tag(abstracts, tags); the record of the call keeps the tags (given) and
\* the abstracts (params)
DoTag(Ls, Tss) ==
    \E l \in Ls, ts \in Tss :
        Commit("tag", ts[1], ValueConcrete(List(ts)), FALSE, l,
               Tag(Container, l, ts))

DoTagged(Ts) ==
    \E t \in Ts :
        Commit("tagged", t, NoConcrete, FALSE, NoParams, Tagged(Container, t))

DoResolvingGlobal(Cbs) ==
    \E cb \in Cbs :
        Commit("resolving", "", FactoryConcrete(cb), FALSE, NoParams,
               ResolvingGlobal(Container, cb))

DoResolving(As, Cbs) ==
    \E a \in As, cb \in Cbs :
        Commit("resolving", a, FactoryConcrete(cb), FALSE, NoParams,
               Resolving(Container, a, cb))

DoAfterResolvingGlobal(Cbs) ==
    \E cb \in Cbs :
        Commit("afterResolving", "", FactoryConcrete(cb), FALSE, NoParams,
               AfterResolvingGlobal(Container, cb))

DoAfterResolving(As, Cbs) ==
    \E a \in As, cb \in Cbs :
        Commit("afterResolving", a, FactoryConcrete(cb), FALSE, NoParams,
               AfterResolving(Container, a, cb))

\* the container after construction
Init == Holds(EmptyContainer) /\ last = NoCall /\ prev = NoCall /\ steps = 0

-----------------------------------------------------------------------------
(* Inputs of the public calls *)

\* a non-empty parameter object: {a: <custom value 9>}
ParamsA == [k \in {"a"} |-> Custom(9)]

\* an instance made by the caller
CustomInstance == Custom(7)

\* the parameter object {m: <custom value 5>}
ParamsM == [k \in {"m"} |-> Custom(5)]

-----------------------------------------------------------------------------
(* Singletons and the instance cache: interface IA with its implementations *)
(* Impl1 and Impl2, the name n1, and Mid, whose build faults half-way.      *)

NextCache ==
    \/ steps < MaxSteps /\ DoBind({"IA", "n1"}, {ClassConcrete("Impl1"), ClassConcrete("Impl2")})
    \/ steps < MaxSteps /\ DoMake({"IA", "n1", "Mid"}, {NoParams, ParamsA})
    \/ steps < MaxSteps /\ DoInstance({"IA", "n1"}, {CustomInstance})
    \/ steps < MaxSteps /\ DoAlias({"IA"}, {"n1"})
    \/ steps < MaxSteps /\ DoWhen({"Mid"}, {"IA"}, {ClassConcrete("Impl2")})
    \/ steps < MaxSteps /\ DoExtend({"IA"}, {"e1"})
    \/ steps < MaxSteps /\ DoForgetInstance({"IA"})
    \/ steps < MaxSteps /\ DoUnbind({"IA"})
    \/ steps < MaxSteps /\ DoFlush

SpecCache == Init /\ [][NextCache]_vars

-----------------------------------------------------------------------------
(* Builds with dependencies: X(a: IA, y: Y), Y(a: IA), Z(m: Mid = default,  *)
(* a: IA), Mid(t: IT), OptD(t: IT = default), OptN(t: IT), the contextual   *)
(* bindings of IA under these anchors and the ordinary binding of IA.       *)

NextBuild ==
    \/ steps < MaxSteps /\ DoWhen({"X", "Y", "Z", "Mid"}, {"IA"}, {ClassConcrete("Impl1")})
    \/ steps < MaxSteps /\ DoBind({"IA"}, {ClassConcrete("Impl2")})
    \/ steps < MaxSteps /\ DoMake({"X", "Y", "Z", "Mid", "OptD", "OptN", "IA"}, {NoParams})
    \/ steps < MaxSteps /\ DoMake({"X", "OptD", "OptN"}, {ParamsA})

SpecBuild == Init /\ [][NextBuild]_vars

-----------------------------------------------------------------------------
(* Rebinding: the callbacks cb1 and cb2 registered for IA or for the name   *)
(* n1, bindings of IA to Impl1 and Impl2, and Mid, whose build faults.      *)

NextRebind ==
    \/ steps < MaxRebindSteps /\ DoRebinding({"IA", "n1"}, {"cb1", "cb2"})
    \/ steps < MaxRebindSteps /\ DoMake({"IA", "n1", "Mid"}, {NoParams})
    \/ steps < MaxRebindSteps /\ DoBind({"IA"}, {ClassConcrete("Impl1"), ClassConcrete("Impl2")})
    \/ steps < MaxRebindSteps /\ DoAlias({"IA"}, {"n1"})
    \/ steps < MaxRebindSteps /\ DoWhen({"Mid"}, {"IA"}, {ClassConcrete("Impl1")})
    \/ steps < MaxRebindSteps /\ DoUnbind({"IA"})

SpecRebind == Init /\ [][NextRebind]_vars

-----------------------------------------------------------------------------
(* What the claims are stated with *)

\* the key _resolve works with for the identifier: the end of its alias chain
Canonical(abstract) == GetAlias(Container, abstract).id

\* the identifier has a shared binding: its canonical key is bound with
\* shared = true (singleton(A, C) or bind(A, C, true))
HasSharedBinding(abstract) ==
    /\ GetAlias(Container, abstract).err = NoErr
    /\ MapHas(bindings, Canonical(abstract))
    /\ bindings[Canonical(abstract)].shared

\* call k is make(abstract) without explicit parameters, issued while no
\* contextual override was in force for the identifier
PlainMake(k) == k.op = "make" /\ DOMAIN k.params = {} /\ ~k.ctx

-----------------------------------------------------------------------------
C2_ParametersBuildFresh ==
    [][(/\ last'.op = "make" /\ DOMAIN last'.params # {} /\ last'.err = NoErr
        /\ IsShared(Container, Canonical(last'.abs)))
       => (/\ last'.val.kind = "obj" /\ last'.val.id >= nextId
           /\ MapHas(instances', Canonical(last'.abs))
                  = MapHas(instances, Canonical(last'.abs))
           /\ MapHas(instances, Canonical(last'.abs))
                  => instances'[Canonical(last'.abs)]
                         = instances[Canonical(last'.abs)])]_vars

\* a make with parameters on a shared A whose cached instance is another
\* object than the one returned
C2_Witness ==
    /\ last.op = "make" /\ DOMAIN last.params # {} /\ last.err = NoErr
    /\ HasSharedBinding(last.abs)
    /\ MapHas(instances, Canonical(last.abs))
    /\ instances[Canonical(last.abs)].id # last.val.id
    /\ last.val.kind = "obj" /\ last.val.id >= last.firstId

(* C10: after instance(x, v), make(x) without parameters returns exactly v. *)
C10_InstanceThenMake ==
    (/\ prev.op = "instance" /\ prev.err = NoErr
     /\ last.op = "make" /\ last.abs = prev.abs /\ DOMAIN last.params = {})
    => (last.err = NoErr /\ last.val = prev.given.val)

(* C3: the build stack is balanced around every top-level call: it is empty *)
(* before and after the call, whether the call returns or faults.           *)
C3_BuildStackBalanced == buildStack = << >>

(* C4: the parameter override stack is balanced around every top-level      *)
(* make: as deep after the call as before it, which is empty.               *)
C4_OverrideStackBalanced == with = << >>

RECURSIVE Nodes(_)
\* the values of an object graph: the value and everything injected into it
Nodes(v) == {v} \cup UNION { Nodes(v.args[i]) : i \in 1..Len(v.args) }

\* a contextual binding (anchor, abstract) is registered
HasContextual(anchor, abstract) ==
    NestedMapHas(contextual, << anchor, abstract >>).val

\* every contextual binding registered for IA gives Impl1, and the ordinary
\* binding of IA is bind(IA, Impl2)
GivenImpl1AndBoundImpl2 ==
    /\ \A k \in Classes : HasContextual(k, "IA") =>
           NestedMapGet(contextual, << k, "IA" >>) = ClassConcrete("Impl1")
    /\ MapHas(bindings, "IA")
    /\ bindings["IA"].concrete = ClosureConcrete("IA", "Impl2")

(* C5: given when(X).needs(IA).give(Impl1) and bind(IA, Impl2), the         *)
(* IA-dependency injected into X is built from Impl1 and the IA-dependency  *)
(* of every concrete without a contextual binding is built from Impl2, also *)
(* when that concrete is built as a dependency of X.                        *)
C5_ContextualByDirectAnchor ==
    (/\ last.op = "make" /\ last.err = NoErr /\ DOMAIN last.params = {}
     /\ GivenImpl1AndBoundImpl2)
    => \A n \in Nodes(last.val) :
         \A i \in 1..Len(n.args) :
            (n.kind = "obj" /\ Ctor(n.cls)[i].type = "IA")
            => n.args[i].cls = IF HasContextual(n.cls, "IA") THEN "Impl1"
                               ELSE "Impl2"

(* C6: a top-level make is never resolved through a contextual override: no *)
(* override is in force for the identifier when no build is in progress.    *)
C6_NoOverrideAtTopLevel == last.op = "make" => ~last.ctx

(* C9: a constructor parameter of class type T, T not bound and not         *)
(* instantiable: with a default value the build succeeds and the parameter  *)
(* receives the default; without one the make faults as not instantiable.   *)
C9_OptionalClassDependency ==
    [][\A k \in Classes :
        (/\ last'.op = "make" /\ last'.abs = k
         /\ Len(Ctor(k)) = 1 /\ Ctor(k)[1].type \in Interfaces
         /\ Ctor(k)[1].name \notin DOMAIN last'.params
         /\ ~Bound(Container, k) /\ ~last'.ctx
         /\ ~Bound(Container, Ctor(k)[1].type)
         /\ ~OverrideInForce([Container EXCEPT !.buildStack = Append(@, k)],
                             Ctor(k)[1].type))
        => IF Ctor(k)[1].hasDefault
           THEN /\ last'.err = NoErr
                /\ last'.val.kind = "obj" /\ last'.val.cls = k
                /\ last'.val.args = << DefaultValue(Ctor(k)[1].name) >>
           ELSE last'.err = NotInstantiableErr]_vars

\* both cases happened: OptD was built with its default, or OptN faulted
C9_Witness ==
    /\ last.op = "make" /\ last.abs = "OptD" /\ last.err = NoErr
    /\ last.val.args = << DefaultValue("t") >>
    /\ prev.op = "make" /\ prev.abs = "OptN" /\ prev.err = NotInstantiableErr

\* the log of a call in which the callbacks cbs ran once each, in this
\* order and with this instance, and nothing else was logged
ReboundLog(cbs, instance) ==
    [i \in 1..Len(cbs) |-> Event("rebound", cbs[i], instance, << >>)]

(* C7: after make(A) resolved A, bind(A, NewConcrete) invokes, before it    *)
(* returns, every callback registered with rebinding(A, cb) exactly once,   *)
(* in registration order, with the instance newly built from NewConcrete.   *)
C7_BindFiresRebound ==
    (/\ prev.op = "make" /\ prev.err = NoErr /\ prev.canon = prev.abs
     /\ last.op = "bind" /\ last.abs = prev.abs)
    => /\ last.err = NoErr
       /\ \E v \in {e.val : e \in {last.log[i] : i \in 1..Len(last.log)}}
                 \cup {Undef} :
             /\ last.log = ReboundLog(GetReboundCallbacks(Container, last.abs), v)
             /\ Len(last.log) > 0 =>
                    /\ v.kind = "obj" /\ v.cls = last.given.target
                    /\ v.id >= last.firstId

(* C8: rebinding(abstract, cb) registers cb under the canonical abstract    *)
(* and, if that abstract is bound, resolves it at once and invokes cb once  *)
(* with the instance; if it is not bound nothing is resolved and cb is not  *)
(* invoked.                                                                 *)
C8_RebindingInvokesCallback ==
    [][(last'.op = "rebinding" /\ last'.err = NoErr)
       => /\ GetReboundCallbacks(Container', Canonical(last'.abs))
                = Append(GetReboundCallbacks(Container, Canonical(last'.abs)),
                         last'.given.target)
          /\ IF Bound(Container, Canonical(last'.abs))
             THEN last'.log = << Event("rebound", last'.given.target,
                                       last'.val, << >>) >>
             ELSE /\ last'.log = << >>
                  /\ resolved' = resolved /\ instances' = instances
                  /\ nextId' = nextId]_vars

(* C8 as the code has it: rebinding(abstract, cb) registers cb under the    *)
(* canonical abstract; if that abstract is bound it resolves it at once and *)
(* returns the instance, without invoking cb; if it is not bound nothing is *)
(* resolved; cb is invoked in neither case.                                 *)
C8_RebindingReturnsInstance ==
    [][(last'.op = "rebinding" /\ GetAlias(Container, last'.abs).err = NoErr)
       => /\ GetReboundCallbacks(Container', Canonical(last'.abs))
                = Append(GetReboundCallbacks(Container, Canonical(last'.abs)),
                         last'.given.target)
          /\ last'.log = << >>
          /\ IF Bound(Container, Canonical(last'.abs))
             THEN last'.err = NoErr =>
                    \/ /\ MapHas(instances, Canonical(last'.abs)) /\ ~last'.ctx
                       /\ last'.val = instances[Canonical(last'.abs)]
                    \/ /\ last'.val.kind = "obj" /\ last'.val.id >= nextId
                       /\ Canonical(last'.abs) \in resolved'
             ELSE /\ last'.err = NoErr /\ last'.val = Undef
                  /\ resolved' = resolved /\ instances' = instances
                  /\ nextId' = nextId]_vars

\* rebinding on a bound abstract returned a newly built instance and ran no
\* callback, the callback being registered
C8_Witness ==
    /\ last.op = "rebinding" /\ last.err = NoErr
    /\ last.val.kind = "obj" /\ last.val.id >= last.firstId
    /\ last.log = << >>
    /\ MapHas(bindings, Canonical(last.abs))
    /\ last.given.target \in
           {GetReboundCallbacks(Container, Canonical(last.abs))[i] :
               i \in 1..Len(GetReboundCallbacks(Container, Canonical(last.abs)))}

-----------------------------------------------------------------------------
(* Tags: tag() on IA, Repo and Mid (whose build faults) under the tags g    *)
(* and h, tagged(), and the bindings of IA, shared or not.                  *)

NextTag ==
    \/ steps < MaxSteps /\ DoTag({<< "IA" >>, << "Repo" >>, << "IA", "Repo" >>,
                                  << "Mid" >>},
                                 {<< "g" >>, << "g", "h" >>})
    \/ steps < MaxSteps /\ DoTagged({"g", "h"})
    \/ steps < MaxSteps /\ DoBind({"IA"}, {ClassConcrete("Impl1")})
    \/ steps < MaxSteps /\ DoMake({"IA"}, {NoParams})

SpecTag == Init /\ [][NextTag]_vars

\* the abstracts registered under a tag
TagList(tg, t) == IF MapHas(tg, t) THEN tg[t] ELSE << >>

\* the elements of a sequence
Range(seq) == {seq[i] : i \in 1..Len(seq)}

RECURSIVE SameAsMakes(_, _, _, _)
RECURSIVE AgreesAt(_, _, _, _)
\* results[i..] are what make returns for abstracts[i..], called one after
\* the other on container c
SameAsMakes(c, abstracts, i, results) ==
    i > Len(abstracts) \/ AgreesAt(abstracts, i, results, Make(c, abstracts[i], NoParams))

AgreesAt(abstracts, i, results, r) ==
    /\ r.err = NoErr
    /\ results[i] = r.val
    /\ SameAsMakes(r.c, abstracts, i + 1, results)

(* C11: tag(abstracts, tags) appends the abstracts, in the order given, to  *)
(* the registrations of each of the tags; tagged(g) returns the results of  *)
(* make on the identifiers registered under g, one per registration and in  *)
(* registration order, and the empty list for an unknown tag.               *)
C11_TaggedInRegistrationOrder ==
    [][/\ last'.op = "tag" =>
            \A t \in {"g", "h"} :
               TagList(tags', t) =
                  IF t \in Range(last'.given.val.args)
                  THEN TagList(tags, t) \o last'.params
                  ELSE TagList(tags, t)
       /\ (last'.op = "tagged" /\ last'.err = NoErr) =>
            /\ last'.val.kind = "list"
            /\ Len(last'.val.args) = Len(TagList(tags, last'.abs))
            /\ SameAsMakes(Container, TagList(tags, last'.abs), 1, last'.val.args)
            /\ tags' = tags]_vars

\* tagged(g) returned two objects, of Impl1 for IA and of Repo, IA having
\* been tagged before Repo
C11_Witness ==
    /\ last.op = "tagged" /\ last.err = NoErr
    /\ TagList(tags, last.abs) = << "IA", "Repo" >>
    /\ Len(last.val.args) = 2
    /\ last.val.args[1].cls = "Impl1" /\ last.val.args[2].cls = "Repo"

-----------------------------------------------------------------------------
(* Binding and unbinding: the class Repo and the interface IA, bound with   *)
(* or without a concrete, bindIf, unbind, an instance of IA, IA as an alias *)
(* of Repo, a rebinding callback, and Mid, whose build faults, with its     *)
(* contextual binding of Repo.                                              *)

NextBind ==
    \/ steps < MaxSteps /\ DoBind({"Repo", "IA"}, {NoConcrete, ClassConcrete("Impl1")})
    \/ steps < MaxSteps /\ DoBindIf({"Repo", "IA"}, {ClassConcrete("Impl2")})
    \/ steps < MaxSteps /\ DoUnbind({"Repo"})
    \/ steps < MaxSteps /\ DoMake({"Repo", "IA", "Mid"}, {NoParams})
    \/ steps < MaxSteps /\ DoInstance({"IA"}, {CustomInstance})
    \/ steps < MaxSteps /\ DoAlias({"Repo"}, {"IA"})
    \/ steps < MaxSteps /\ DoWhen({"Mid"}, {"Repo"}, {ClassConcrete("Impl2")})
    \/ steps < MaxSteps /\ DoRebinding({"Repo"}, {"cb1"})

SpecBind == Init /\ [][NextBind]_vars

\* the value is an object of class cls created since the call k began
BuiltFrom(v, cls, k) == v.kind = "obj" /\ v.cls = cls /\ v.id >= k.firstId

(* C12: unbind(A) removes the binding, the cached instance and the resolved *)
(* mark of A, and for a constructible A the make(A) that follows unbind(A)  *)
(* succeeds with an instance built from A itself.                           *)
C12_UnbindThenMake ==
    /\ (last.op = "unbind" /\ last.err = NoErr) =>
          /\ ~MapHas(bindings, last.abs)
          /\ ~MapHas(instances, last.abs)
          /\ last.abs \notin resolved
    /\ (/\ prev.op = "unbind" /\ prev.abs \in Classes
        /\ last.op = "make" /\ last.abs = prev.abs /\ DOMAIN last.params = {})
       => (last.err = NoErr /\ BuiltFrom(last.val, last.abs, last))

\* the value is an object of class cls
InstanceOf(v, cls) == v.kind = "obj" /\ v.cls = cls

(* C17: bind(abstract) without a concrete stores the binding of abstract to *)
(* itself when abstract is constructible, and the make(abstract) that       *)
(* follows builds abstract itself; when abstract is not constructible it    *)
(* throws the binding fault and stores no binding record.                   *)
C17_BindWithoutConcrete ==
    [][/\ (last'.op = "bind" /\ last'.given = NoConcrete) =>
            IF IsInstantiable(last'.abs)
            THEN /\ last'.err = NoErr
                 /\ MapHas(bindings', last'.abs)
                 /\ bindings'[last'.abs] =
                       [concrete |-> ClosureConcrete(last'.abs, last'.abs),
                        shared |-> last'.shared]
            ELSE /\ last'.err = BindingErr
                 /\ bindings' = bindings
       /\ (/\ last.op = "bind" /\ last.given = NoConcrete /\ last.err = NoErr
           /\ last'.op = "make" /\ last'.abs = last.abs
           /\ DOMAIN last'.params = {})
          => (last'.err = NoErr /\ InstanceOf(last'.val, last'.abs))]_vars

\* what a call left behind is what r is: the container, the value, the
\* fault and the callbacks that ran
SameOutcome(r) ==
    /\ Container' = [r.c EXCEPT !.log = << >>]
    /\ last'.val = r.val /\ last'.err = r.err /\ last'.log = r.c.log

(* C18: bindIf(abstract, concrete) on an abstract that has a binding, a     *)
(* cached instance or is an alias changes nothing (bindings, instances,     *)
(* aliases, resolved set) and runs no callback; on an abstract that is not  *)
(* bound it does what bind(abstract, concrete) does.                        *)
C18_BindIfNoOpWhenBound ==
    [][last'.op = "bindIf" =>
         IF \/ MapHas(bindings, last'.abs) \/ MapHas(instances, last'.abs)
            \/ MapHas(aliases, last'.abs)
         THEN /\ last'.err = NoErr /\ last'.log = << >>
              /\ bindings' = bindings /\ instances' = instances
              /\ aliases' = aliases /\ resolved' = resolved
              /\ nextId' = nextId
         ELSE SameOutcome(Bind(Container, last'.abs, last'.given, last'.shared))]_vars

\* bindIf on an abstract that has a cached instance only, a rebinding
\* callback being registered, and bindIf on an unbound abstract that stored
\* its binding
C18_Witness ==
    /\ prev.op = "bindIf" /\ MapHas(bindings, prev.abs)
    /\ bindings[prev.abs].concrete = ClosureConcrete(prev.abs, "Impl2")
    /\ last.op = "bindIf" /\ last.err = NoErr
    /\ MapHas(instances, last.abs) /\ ~MapHas(bindings, last.abs)

-----------------------------------------------------------------------------
(* Autowiring and faults: Service(repo: Repo), Repo(), Mid(t: IT),          *)
(* Prim(n: builtin), NoType(p: no type), the classes with one optional      *)
(* dependency OptD(t: IT), OptP(d: Prim), OptM(d: NoType), OptR(d: Repo),   *)
(* make and get on them, IA bound to Mid, and Repo aliased to itself.       *)

NextAutowire ==
    \/ steps < MaxSteps /\ DoMake({"Service", "Repo", "Mid", "OptD", "OptP", "OptM",
                                   "OptR"}, {NoParams})
    \/ steps < MaxSteps /\ DoGet({"Service", "IA", "Mid", "n1", "OptP"})
    \/ steps < MaxSteps /\ DoBind({"IA"}, {ClassConcrete("Mid")})
    \/ steps < MaxSteps /\ DoAlias({"Repo", "IA"}, {"Repo", "n1"})

SpecAutowire == Init /\ [][NextAutowire]_vars

\* nothing is registered: no binding, no instance, no alias, no contextual
\* binding, no extender
NoRegistration ==
    /\ DOMAIN bindings = {} /\ DOMAIN instances = {} /\ DOMAIN aliases = {}
    /\ DOMAIN contextual = {} /\ DOMAIN extenders = {}

(* C13: with nothing registered, make(Service), Service(repo: Repo) and     *)
(* Repo constructible, succeeds with a new Service into which a Repository  *)
(* built during this very call is injected, so that two makes never share   *)
(* a Repository.                                                            *)
C13_AutowireFreshDependency ==
    [][(/\ NoRegistration
        /\ last'.op = "make" /\ last'.abs = "Service"
        /\ DOMAIN last'.params = {})
       => /\ last'.err = NoErr
          /\ BuiltFrom(last'.val, "Service", last')
          /\ Len(last'.val.args) = 1
          /\ BuiltFrom(last'.val.args[1], "Repo", last')
          /\ (last.op = "make" /\ last.abs = "Service" /\ last.err = NoErr)
                => last.val.args[1].id # last'.val.args[1].id]_vars

\* two makes of Service in a row, nothing being registered
C13_Witness ==
    /\ NoRegistration
    /\ prev.op = "make" /\ prev.abs = "Service" /\ prev.err = NoErr
    /\ last.op = "make" /\ last.abs = "Service" /\ last.err = NoErr
    /\ last.val.args[1].cls = "Repo"
    /\ last.val.args[1].id # prev.val.args[1].id

GetFollows(id, isBound, r) ==
    IF r.err = NoErr \/ isBound THEN SameOutcome(r)
    ELSE /\ last'.err = EntryNotFoundErr
         /\ Container' = [r.c EXCEPT !.log = << >>]

OptionalClasses ==
    {k \in Classes : /\ Len(Ctor(k)) = 1 /\ Ctor(k)[1].hasDefault
                      /\ Ctor(k)[1].type \notin {"builtin", "none"}}

\* what resolving the dependency of k gives while k is being built by a
\* top-level make on the container as it is
DependencyFault(k) ==
    Make([Container EXCEPT !.buildStack = Append(@, k),
                           !.with = Append(@, NoParams)],
         Ctor(k)[1].type, NoParams).err

\* make(k) replaced the faults of the set swallowed by the default value
\* and let every other fault e of the dependency out
Swallows(k, swallowed, e) ==
    /\ e \in swallowed =>
          /\ last'.err = NoErr
          /\ last'.val.args = << DefaultValue(Ctor(k)[1].name) >>
    /\ e \notin (swallowed \cup {NoErr}) => last'.err = e

\* a top-level make(k) that builds k itself
BuildsItself(k) ==
    /\ last'.op = "make" /\ last'.abs = k /\ DOMAIN last'.params = {}
    /\ ~Bound(Container, k) /\ ~last'.ctx

(* C19: for a class-typed parameter with a default value only the           *)
(* not-instantiable fault of the dependency is replaced by the default;     *)
(* every other fault raised inside the resolution of the dependency comes   *)
(* out of make unchanged.                                                   *)
C19_OnlyNotInstantiableSwallowed ==
    [][\A k \in OptionalClasses :
          BuildsItself(k) =>
             Swallows(k, {NotInstantiableErr}, DependencyFault(k))]_vars

(* C19 as the code has it: every binding resolution fault of the dependency *)
(* (not instantiable, unresolvable primitive, missing parameter type) is    *)
(* replaced by the default; faults of other kinds come out of make          *)
(* unchanged.                                                               *)
C19_BindingResolutionFaultsSwallowed ==
    [][\A k \in OptionalClasses :
          BuildsItself(k) =>
             Swallows(k, {NotInstantiableErr, UnresolvableErr, MissingTypeErr},
                      DependencyFault(k))]_vars

\* make(OptR) let the logic fault of its self-aliased dependency out, and
\* make(OptP) got the default in place of the unresolvable primitive fault
C19_Witness ==
    /\ prev.op = "make" /\ prev.abs = "OptR" /\ prev.err = LogicErr
    /\ last.op = "make" /\ last.abs = "OptP" /\ last.err = NoErr
    /\ last.val.args = << DefaultValue("d") >>

-----------------------------------------------------------------------------
(* Aliases: every alias edge among n1, n2 and IA, the self-aliases          *)
(* included, getAlias, and the calls that remove alias edges.               *)

NextAlias ==
    \/ steps < MaxSteps /\ DoAlias({"n1", "n2", "IA"}, {"n1", "n2", "IA"})
    \/ steps < MaxSteps /\ DoGetAlias({"n1", "n2", "IA"})
    \/ steps < MaxSteps /\ DoInstance({"n1"}, {CustomInstance})
    \/ steps < MaxSteps /\ DoBind({"n2"}, {ClassConcrete("Impl1")})
    \/ steps < MaxSteps /\ DoMake({"n1"}, {NoParams})
    \/ steps < MaxSteps /\ DoFlush

SpecAlias == Init /\ [][NextAlias]_vars

RECURSIVE FollowN(_, _, _)
\* the identifier n alias edges after x, or "" when the chain ends before
FollowN(al, x, n) ==
    IF n = 0 THEN x
    ELSE IF x \in DOMAIN al THEN FollowN(al, al[x], n - 1)
    ELSE ""

\* the alias graph has a cycle: some alias comes back to itself
AliasCycle(al) ==
    \E x \in DOMAIN al : \E n \in 1..Cardinality(DOMAIN al) : FollowN(al, x, n) = x

(* C14: when the alias graph has no cycle, getAlias(x) is, for every        *)
(* identifier x, not an alias, and getAlias of it is itself; a getAlias     *)
(* call returns that identifier.                                            *)
C14_GetAliasFixedPoint ==
    ~AliasCycle(aliases) =>
       /\ \A x \in Identifiers :
             /\ GetAlias(Container, x).err = NoErr
             /\ ~IsAlias(Container, GetAlias(Container, x).id)
             /\ GetAlias(Container, GetAlias(Container, x).id)
                   = GetAlias(Container, x)
       /\ last.op = "getAlias" =>
             /\ last.err = NoErr /\ last.val.kind = "identifier"
             /\ ~IsAlias(Container, last.val.cls)
             /\ FollowN(aliases, last.abs, Cardinality(DOMAIN aliases) + 1) = ""
             /\ \E n \in 0..Cardinality(DOMAIN aliases) :
                   FollowN(aliases, last.abs, n) = last.val.cls

\* getAlias went through two alias edges
C14_Witness ==
    /\ ~AliasCycle(aliases)
    /\ last.op = "getAlias" /\ last.err = NoErr
    /\ MapHas(aliases, last.abs) /\ MapHas(aliases, aliases[last.abs])
    /\ last.val = IdentifierValue(aliases[aliases[last.abs]])

(* C15: alias(abstract, name) with name = abstract throws the logic fault   *)
(* and records nothing; no identifier is ever an alias of itself.           *)
C15_SelfAliasRejected ==
    /\ (last.op = "alias" /\ last.given.target = last.abs) => last.err = LogicErr
    /\ \A x \in DOMAIN aliases : aliases[x] # x
    /\ \A x \in DOMAIN abstractAliases :
          \A i \in 1..Len(abstractAliases[x]) : abstractAliases[x][i] # x

(* C20: getAlias ends by itself on every alias graph the public calls can   *)
(* build: it returns, or throws a fault of its own, and never recurses      *)
(* until the call stack is exhausted.                                       *)
C20_GetAliasTerminates ==
    /\ \A x \in Identifiers : GetAlias(Container, x).err # RangeErr
    /\ last.err # RangeErr

-----------------------------------------------------------------------------
(* Lifecycle callbacks: the global callbacks gr and ga, the per-type         *)
(* callbacks tr and ta registered for the class Repo or the interface IA,    *)
(* makes of Repo, of Service(repo: Repo) and of IA, and IA bound to Repo.    *)

NextLifecycle ==
    \/ steps < MaxLifecycleSteps /\ DoResolvingGlobal({"gr"})
    \/ steps < MaxLifecycleSteps /\ DoAfterResolvingGlobal({"ga"})
    \/ steps < MaxLifecycleSteps /\ DoResolving({"Repo", "IA"}, {"tr"})
    \/ steps < MaxLifecycleSteps /\ DoAfterResolving({"Repo", "IA"}, {"ta"})
    \/ steps < MaxLifecycleSteps /\ DoMake({"Repo", "Service", "IA"}, {NoParams})
    \/ steps < MaxLifecycleSteps /\ DoBind({"IA"}, {ClassConcrete("Repo")})

SpecLifecycle == Init /\ [][NextLifecycle]_vars

\* the callbacks cbs of the group ev, each called once with the object
Events(ev, cbs, object) ==
    [i \in 1..Len(cbs) |-> Event(ev, cbs[i], object, << >>)]

\* a per-type entry applies to a resolution: its key is the abstract, or
\* the object is an instance of it
Matches(entry, abstract, object) ==
    entry.type = abstract \/ InstanceOfType(object, entry.type)

RECURSIVE MatchingEvents(_, _, _, _, _)
\* the callbacks of the entries that apply, in the order of the entries
MatchingEvents(ev, entries, abstract, object, i) ==
    IF i > Len(entries) THEN << >>
    ELSE (IF Matches(entries[i], abstract, object)
          THEN Events(ev, entries[i].cbs, object) ELSE << >>)
         \o MatchingEvents(ev, entries, abstract, object, i + 1)

RECURSIVE InterleavedEvents(_, _, _, _, _)
\* every group of per-type resolving callbacks that applies, followed at
\* once by the after-resolving callbacks of the same type
InterleavedEvents(entries, after, abstract, object, i) ==
    IF i > Len(entries) THEN << >>
    ELSE (IF Matches(entries[i], abstract, object)
          THEN Events("resolving", entries[i].cbs, object)
               \o Events("afterResolving", CallbacksOf(after, entries[i].type),
                         object)
          ELSE << >>)
         \o InterleavedEvents(entries, after, abstract, object, i + 1)

\* the last n entries of a log
LastEvents(log, n) == SubSeq(log, Len(log) - n + 1, Len(log))

\* the log of the call ends with the events
EndsWith(log, events) ==
    Len(log) >= Len(events) /\ LastEvents(log, Len(events)) = events

\* the make the step made was not answered from the instance cache
ResolvedAfresh ==
    /\ last'.op = "make" /\ last'.err = NoErr
    /\ ~(MapHas(instances, last'.canon) /\ ~last'.ctx /\ DOMAIN last'.params = {})

(* C21: the callbacks of one resolution fire in interleaved groups: the     *)
(* global resolving callbacks, at once the global after-resolving           *)
(* callbacks, and then, for every per-type key that applies, its resolving  *)
(* callbacks followed at once by its after-resolving callbacks.             *)
C21_CallbacksInterleaved ==
    [][ResolvedAfresh =>
          EndsWith(last'.log,
              Events("globalResolving", globalResolvingCallbacks, last'.val)
              \o Events("globalAfterResolving", globalAfterResolvingCallbacks,
                        last'.val)
              \o InterleavedEvents(resolvingCallbacks, afterResolvingCallbacks,
                                   last'.canon, last'.val, 1))]_vars

(* C21 as the code has it: the callbacks of one resolution fire in two      *)
(* passes: the global resolving callbacks and the per-type resolving        *)
(* callbacks that apply, and only then the global after-resolving callbacks *)
(* and the per-type after-resolving callbacks that apply; within a pass the *)
(* order is the order of registration.                                      *)
C21_CallbacksInTwoPasses ==
    [][ResolvedAfresh =>
          EndsWith(last'.log,
              Events("globalResolving", globalResolvingCallbacks, last'.val)
              \o MatchingEvents("resolving", resolvingCallbacks,
                                last'.canon, last'.val, 1)
              \o Events("globalAfterResolving", globalAfterResolvingCallbacks,
                        last'.val)
              \o MatchingEvents("afterResolving", afterResolvingCallbacks,
                                last'.canon, last'.val, 1))]_vars

\* a make of Repo ran one callback of each of the four groups: the two
\* resolving ones, then the two after-resolving ones
C21_Witness ==
    /\ last.op = "make" /\ last.abs = "Repo" /\ last.err = NoErr
    /\ last.log = << Event("globalResolving", "gr", last.val, << >>),
                     Event("resolving", "tr", last.val, << >>),
                     Event("globalAfterResolving", "ga", last.val, << >>),
                     Event("afterResolving", "ta", last.val, << >>) >>

-----------------------------------------------------------------------------
(* Rebind notification: the callbacks cb1 and cb2 registered for the class  *)
(* Repo, which is made without a binding (autowired), bound, extended or    *)
(* given an instance; Mid, whose build faults, with its contextual binding  *)
(* of Repo.                                                                 *)

NextNotify ==
    \/ steps < MaxSteps /\ DoRebinding({"Repo"}, {"cb1", "cb2"})
    \/ steps < MaxSteps /\ DoMake({"Repo", "Mid"}, {NoParams})
    \/ steps < MaxSteps /\ DoBind({"Repo"}, {NoConcrete, ClassConcrete("Impl1")})
    \/ steps < MaxSteps /\ DoExtend({"Repo"}, {"e1"})
    \/ steps < MaxSteps /\ DoInstance({"Repo"}, {CustomInstance})
    \/ steps < MaxSteps /\ DoWhen({"Mid"}, {"Repo"}, {ClassConcrete("Impl2")})
    \/ steps < MaxSteps /\ DoUnbind({"Repo"})

SpecNotify == Init /\ [][NextNotify]_vars

\* the rebound callbacks that ran in a call, in the order they ran
ReboundEvents(log) == SelectSeq(log, LAMBDA e : e.ev = "rebound")

\* the value is an object created by the step, or what the step left in the
\* instance cache under the key
NewInstance(v, key) ==
    \/ v.kind = "obj" /\ v.id >= nextId
    \/ MapHas(instances', key) /\ v = instances'[key]

\* the step notified the rebound callbacks of the key: every callback
\* registered for it ran once, in registration order, with one new instance
Notified(key) ==
    \E v \in {e.val : e \in Range(last'.log)} \cup {Undef} :
        /\ ReboundEvents(last'.log) = ReboundLog(GetReboundCallbacks(Container, key), v)
        /\ Len(ReboundEvents(last'.log)) > 0 => NewInstance(v, key)

\* the step resolved nothing and ran no rebound callback
NotNotified ==
    /\ last'.err = NoErr /\ ReboundEvents(last'.log) = << >> /\ nextId' = nextId

-----------------------------------------------------------------------------
(* Parameter overrides: makes with the parameter objects {a: ...} and      *)
(* {m: ...} of Z(m: Mid = default, a: IA), X(a: IA, y: Y) and               *)
(* OptD(t: IT = default), IA being bound to Impl2 or not.                   *)

NextOverride ==
    \/ steps < MaxSteps /\ DoMake({"Z", "X", "OptD"},
                                  {NoParams, ParamsA, ParamsM})
    \/ steps < MaxSteps /\ DoBind({"IA"}, {ClassConcrete("Impl2")})

SpecOverride == Init /\ [][NextOverride]_vars

(* C23: when make(K, parameters) builds the class K itself, every           *)
(* constructor parameter of K that parameters names receives that value     *)
(* verbatim, also a parameter that follows a class-typed parameter whose    *)
(* resolution fell back to its default value.                               *)
C23_NamedOverrideVerbatim ==
    [][\A k \in Classes :
          (/\ last'.op = "make" /\ last'.abs = k /\ last'.err = NoErr
           /\ ~Bound(Container, k) /\ ~last'.ctx)
          => /\ Len(last'.val.args) = Len(Ctor(k))
             /\ \A i \in 1..Len(Ctor(k)) :
                   Ctor(k)[i].name \in DOMAIN last'.params
                   => last'.val.args[i] = last'.params[Ctor(k)[i].name]]_vars

-----------------------------------------------------------------------------
(* Precedence: Y(a: IA) and Service(repo: Repo) are built while IA and Repo *)
(* have a contextual binding under them, a shared or plain binding, a       *)
(* cached instance, or nothing; Mid is the build that faults.               *)

NextPrecedence ==
    \/ steps < MaxSteps /\ DoWhen({"Y"}, {"IA"}, {ClassConcrete("Impl1")})
    \/ steps < MaxSteps /\ DoWhen({"Service"}, {"Repo"}, {ClassConcrete("Impl1")})
    \/ steps < MaxSteps /\ DoBind({"IA", "Repo"}, {ClassConcrete("Impl2")})
    \/ steps < MaxSteps /\ DoMake({"Y", "Service", "IA", "Repo", "Mid"}, {NoParams})

SpecPrecedence == Init /\ [][NextPrecedence]_vars

\* the classes with a single parameter of class type and without a default
SingleDependencyClasses ==
    {k \in Classes : /\ Len(Ctor(k)) = 1 /\ ~Ctor(k)[1].hasDefault
                      /\ Ctor(k)[1].type \notin {"builtin", "none"}}

\* the step left the cache entry of the key as it was
CacheEntryKept(key) ==
    /\ MapHas(instances', key) = MapHas(instances, key)
    /\ MapHas(instances, key) => instances'[key] = instances[key]

\* the step built k with the single dependency v
BuiltWith(k, v) ==
    /\ last'.err = NoErr /\ last'.val.kind = "obj" /\ last'.val.cls = k
    /\ last'.val.args = << v >>

\* the step built k with a single dependency that is a new object of cls
BuiltWithNew(k, cls) ==
    /\ last'.err = NoErr /\ last'.val.kind = "obj" /\ last'.val.cls = k
    /\ Len(last'.val.args) = 1
    /\ last'.val.args[1].kind = "obj" /\ last'.val.args[1].cls = cls
    /\ last'.val.args[1].id >= nextId

(* C24: while k is being built, its dependency A is resolved with this      *)
(* precedence: the contextual binding (k, A) wins over a cached instance    *)
(* and over the ordinary binding of A, and what it gives is not written to  *)
(* the instance cache; without it the cached instance is used, or else the  *)
(* ordinary binding; with none of the three A is built as its own concrete. *)
C24_ContextualThenCacheThenBinding ==
    [][\A k \in SingleDependencyClasses :
          BuildsItself(k) =>
             IF HasContextual(k, Ctor(k)[1].type)
             THEN /\ BuiltWithNew(k, NestedMapGet(contextual,
                                      << k, Ctor(k)[1].type >>).target)
                  /\ CacheEntryKept(Ctor(k)[1].type)
             ELSE IF MapHas(instances, Ctor(k)[1].type)
             THEN /\ BuiltWith(k, instances[Ctor(k)[1].type])
                  /\ CacheEntryKept(Ctor(k)[1].type)
             ELSE IF MapHas(bindings, Ctor(k)[1].type)
             THEN /\ BuiltWithNew(k, bindings[Ctor(k)[1].type].concrete.target)
                  /\ bindings[Ctor(k)[1].type].shared
                        => /\ MapHas(instances', Ctor(k)[1].type)
                           /\ instances'[Ctor(k)[1].type] = last'.val.args[1]
             ELSE IF IsInstantiable(Ctor(k)[1].type)
             THEN BuiltWithNew(k, Ctor(k)[1].type)
             ELSE last'.err = NotInstantiableErr]_vars

\* Y was built with a new Impl1, the contextual binding, while IA had a
\* shared binding to Impl2 and a cached instance, which stayed in the cache
C24_Witness ==
    /\ last.op = "make" /\ last.abs = "Y" /\ last.err = NoErr
    /\ HasContextual("Y", "IA")
    /\ MapHas(bindings, "IA") /\ bindings["IA"].shared
    /\ MapHas(instances, "IA") /\ instances["IA"].cls = "Impl2"
    /\ last.val.args[1].cls = "Impl1" /\ last.val.args[1].id >= last.firstId

-----------------------------------------------------------------------------
(* Primitive parameters: Prim(n: builtin) and PrimD(n: builtin = default),  *)
(* with a contextual binding for the parameter name n that gives a value,   *)
(* a falsy value (0, the empty string, false) or a factory.                 *)

NextPrimitive ==
    \/ steps < MaxSteps /\ DoWhen({"Prim", "PrimD"}, {"n"},
                                  {ValueConcrete(Custom(3)), ValueConcrete(Falsy),
                                   FactoryConcrete("F")})
    \/ steps < MaxSteps /\ DoMake({"Prim", "PrimD"}, {NoParams})

SpecPrimitive == Init /\ [][NextPrimitive]_vars

\* the classes with a single parameter of a builtin type
PrimitiveClasses ==
    {k \in Classes : Len(Ctor(k)) = 1 /\ Ctor(k)[1].type = "builtin"}

\* the step built k with what the contextual implementation g gives: the
\* object a factory returns, or the value itself
BuiltWithGiven(k, g) ==
    IF g.kind = "factory" THEN BuiltWithNew(k, g.target)
    ELSE BuiltWith(k, g.val)

(* C25: the primitive parameter p of the class k being built receives what  *)
(* the contextual binding (k, name of p) gives whenever there is one,       *)
(* whatever the value (0, the empty string and false included), a factory   *)
(* being invoked; without one its default value when it has one; and the    *)
(* make faults as unresolvable primitive otherwise.                         *)
C25_PrimitiveFromContextual ==
    [][\A k \in PrimitiveClasses :
          BuildsItself(k) =>
             IF HasContextual(k, Ctor(k)[1].name)
             THEN BuiltWithGiven(k, NestedMapGet(contextual,
                                        << k, Ctor(k)[1].name >>))
             ELSE IF Ctor(k)[1].hasDefault
             THEN BuiltWith(k, DefaultValue(Ctor(k)[1].name))
             ELSE last'.err = UnresolvableErr]_vars

-----------------------------------------------------------------------------
(* Re-binding a singleton: IA bound to Impl1 or Impl2, shared or not, made, *)
(* and bound again; Mid, whose build faults, with its contextual binding of *)
(* IA.                                                                      *)

NextClear ==
    \/ steps < MaxClearSteps /\ DoBind({"IA"}, {ClassConcrete("Impl1"),
                                                ClassConcrete("Impl2")})
    \/ steps < MaxClearSteps /\ DoMake({"IA", "Mid"}, {NoParams})
    \/ steps < MaxClearSteps /\ DoWhen({"Mid"}, {"IA"}, {ClassConcrete("Impl1")})

SpecClear == Init /\ [][NextClear]_vars

(* C26: bind(A, C2), shared or not, on an A that had a cached instance      *)
(* built from C1 clears it: the make(A) after it does not return the old    *)
(* instance but an instance built from C2 since the bind.                   *)
C26_RebindClearsInstance ==
    /\ (last.op = "bind" /\ last.cached.kind = "obj") =>
          ~(MapHas(instances, last.abs) /\ instances[last.abs] = last.cached)
    /\ (/\ prev.op = "bind" /\ prev.err = NoErr /\ prev.cached.kind = "obj"
        /\ last.op = "make" /\ last.abs = prev.abs /\ DOMAIN last.params = {})
       => /\ last.err = NoErr
          /\ last.val # prev.cached
          /\ InstanceOf(last.val, prev.given.target)
          /\ last.val.id >= prev.firstId

-----------------------------------------------------------------------------
(* Extenders: the decorators e1 and e2 registered for the class Repo or     *)
(* through its alias n1, Repo being autowired or bound to itself, shared or *)
(* not; the rebound callback cb1; Mid, whose build faults, with its         *)
(* contextual binding of Repo.                                              *)

NextExtend ==
    \/ steps < MaxSteps /\ DoExtend({"Repo", "n1"}, {"e1", "e2"})
    \/ steps < MaxSteps /\ DoBind({"Repo"}, {NoConcrete})
    \/ steps < MaxSteps /\ DoMake({"Repo", "Mid"}, {NoParams})
    \/ steps < MaxSteps /\ DoAlias({"Repo"}, {"n1"})
    \/ steps < MaxSteps /\ DoRebinding({"Repo"}, {"cb1"})
    \/ steps < MaxSteps /\ DoWhen({"Mid"}, {"Repo"}, {ClassConcrete("Impl2")})

SpecExtend == Init /\ [][NextExtend]_vars

(* C27: every extender registered for the canonical abstract, also one      *)
(* registered through an alias, is applied to a newly built object in       *)
(* registration order, each to the result of the one before; the value make *)
(* returns, and stores in the instance cache when it stores one, is the     *)
(* output of the last extender.                                             *)
C27_ExtendersInRegistrationOrder ==
    [][/\ ResolvedAfresh =>
            /\ last'.val.ext = GetExtenders(Container, last'.canon)
            /\ (/\ IsShared(Container, last'.canon) /\ ~last'.ctx
                /\ DOMAIN last'.params = {})
               => /\ MapHas(instances', last'.canon)
                  /\ instances'[last'.canon] = last'.val
       /\ (/\ last'.op = "extend" /\ last'.err = NoErr
           /\ ~MapHas(instances, last'.canon))
          => GetExtenders(Container', last'.canon)
                = Append(GetExtenders(Container, last'.canon),
                         last'.given.target)]_vars

\* Repo, which has the alias n1, was made after e1 and then e2 were
\* registered: the object returned went through e1 and then through e2
C27_Witness ==
    /\ last.op = "make" /\ last.abs = "Repo" /\ last.err = NoErr
    /\ prev.op = "extend" /\ prev.abs = "Repo" /\ prev.given.target = "e2"
    /\ MapHas(aliases, "n1")
    /\ last.val.kind = "obj" /\ last.val.ext = << "e1", "e2" >>

(* C28: extend(abstract, d) when an instance of abstract is cached applies  *)
(* d to the cached instance at once, puts the result in the cache, fires    *)
(* the rebound callbacks and leaves the pending chain as it was; when no    *)
(* instance is cached it appends d to the pending chain, and fires the      *)
(* rebound callbacks if and only if abstract was resolved before.           *)
C28_ExtendCachedOrPending ==
    [][(last'.op = "extend" /\ GetAlias(Container, last'.abs).err = NoErr)
       => IF MapHas(instances, last'.canon)
          THEN /\ MapHas(instances', last'.canon)
               /\ instances'[last'.canon]
                     = Extended(instances[last'.canon], last'.given.target)
               /\ extenders' = extenders
               /\ last'.err = NoErr => Notified(last'.canon)
          ELSE /\ GetExtenders(Container', last'.canon)
                     = Append(GetExtenders(Container, last'.canon),
                              last'.given.target)
               /\ IF last'.canon \in resolved
                  THEN last'.err = NoErr => Notified(last'.canon)
                  ELSE NotNotified]_vars

\* extend on a cached Repo put the decorated instance in the cache, ran the
\* rebound callback with it and left the pending chain of Repo empty
C28_Witness ==
    /\ last.op = "extend" /\ last.err = NoErr /\ last.cached.kind = "obj"
    /\ last.abs = "Repo"
    /\ instances["Repo"] = Extended(last.cached, last.given.target)
    /\ last.log = << Event("rebound", "cb1", instances["Repo"], << >>) >>
    /\ ~MapHas(extenders, "Repo")

-----------------------------------------------------------------------------
(* Chains of bindings: IA bound to Impl1, Impl1 bound to Impl2, Impl2 bound *)
(* to itself, each shared or not; Mid, whose build faults, with its         *)
(* contextual binding of IA.                                                *)

NextChain ==
    \/ steps < MaxChainSteps /\ DoBind({"IA"}, {ClassConcrete("Impl1")})
    \/ steps < MaxChainSteps /\ DoBind({"Impl1"}, {ClassConcrete("Impl2")})
    \/ steps < MaxChainSteps /\ DoBind({"Impl2"}, {NoConcrete})
    \/ steps < MaxChainSteps /\ DoMake({"IA", "Mid"}, {NoParams})
    \/ steps < MaxChainSteps /\ DoWhen({"Mid"}, {"IA"}, {ClassConcrete("Repo")})

SpecChain == Init /\ [][NextChain]_vars

\* a is bound to the class b
BoundTo(a, b) ==
    MapHas(bindings, a) /\ bindings[a].concrete = ClosureConcrete(a, b)

(* C29: with bind(A, B) and bind(B, C) for distinct A, B and C, make(A),    *)
(* when A has no cached instance of its own, returns an object built from   *)
(* C, also when C is bound to itself (built directly, without a further     *)
(* make); the registration of B applies on the way: when B is shared, two   *)
(* makes of A in a row return one instance.                                 *)
C29_BindingChainFollowed ==
    \A b, cc \in Classes :
       (/\ last.op = "make" /\ DOMAIN last.params = {}
        /\ last.cached = Undef
        /\ BoundTo(last.abs, b) /\ BoundTo(b, cc)
        /\ last.abs # b /\ b # cc /\ last.abs # cc
        /\ ~MapHas(bindings, cc) \/ BoundTo(cc, cc))
       => /\ last.err = NoErr
          /\ InstanceOf(last.val, cc)
          /\ (/\ prev.op = "make" /\ prev.abs = last.abs /\ prev.err = NoErr
              /\ DOMAIN prev.params = {} /\ bindings[b].shared)
             => last.val = prev.val

-----------------------------------------------------------------------------
(* Contextual bindings through aliases: Y(a: IA) is built while contextual  *)
(* bindings under Y exist for IA or for the names n1 and n2, which become   *)
(* aliases of IA, in either order, or of Repo.                              *)

NextContextAlias ==
    \/ steps < MaxAliasSteps /\ DoWhen({"Y"}, {"n1"}, {ClassConcrete("Impl1")})
    \/ steps < MaxAliasSteps /\ DoWhen({"Y"}, {"n2", "IA"}, {ClassConcrete("Impl2")})
    \/ steps < MaxAliasSteps /\ DoAlias({"IA"}, {"n1", "n2"})
    \/ steps < MaxAliasSteps /\ DoAlias({"Repo"}, {"n1"})
    \/ steps < MaxAliasSteps /\ DoMake({"Y"}, {NoParams})

SpecContextAlias == Init /\ [][NextContextAlias]_vars

\* the aliases of the abstract, in the order they were registered: the names
\* the alias registry maps to it
AliasesOf(abstract) ==
    IF MapHas(abstractAliases, abstract)
    THEN SelectSeq(abstractAliases[abstract],
                   LAMBDA n : MapHas(aliases, n) /\ aliases[n] = abstract)
    ELSE << >>

\* the keys the contextual lookup for the abstract goes through, in order
LookupKeys(abstract) == << abstract >> \o AliasesOf(abstract)

\* some key of the lookup has a contextual binding under the anchor
HasHit(anchor, abstract) ==
    \E i \in 1..Len(LookupKeys(abstract)) :
        HasContextual(anchor, LookupKeys(abstract)[i])

\* the implementation of the first key that has one
FirstHit(anchor, abstract) ==
    NestedMapGet(contextual,
        << anchor,
           LookupKeys(abstract)[
               CHOOSE i \in 1..Len(LookupKeys(abstract)) :
                  /\ HasContextual(anchor, LookupKeys(abstract)[i])
                  /\ \A j \in 1..(i - 1) :
                        ~HasContextual(anchor, LookupKeys(abstract)[j])] >>)

(* C30: while k is being built, the contextual lookup for its dependency A  *)
(* checks (k, A) and then (k, alias) for every alias of A in the order the  *)
(* aliases were registered, and the first hit is what is built, also when   *)
(* the binding was registered for the name before it became an alias of A;  *)
(* without a hit the ordinary binding is used: A itself when there is none. *)
C30_ContextualThroughAliases ==
    [][\A k \in SingleDependencyClasses :
          (/\ BuildsItself(k)
           /\ ~MapHas(bindings, Ctor(k)[1].type)
           /\ ~MapHas(instances, Ctor(k)[1].type))
          => IF HasHit(k, Ctor(k)[1].type)
             THEN BuiltWithNew(k, FirstHit(k, Ctor(k)[1].type).target)
             ELSE IF IsInstantiable(Ctor(k)[1].type)
             THEN BuiltWithNew(k, Ctor(k)[1].type)
             ELSE last'.err = NotInstantiableErr]_vars


-----------------------------------------------------------------------------
(* Faults and failed calls *)

\* the constructor parameter types of a constructible type
DependencyTypes(cls) == { Ctor(cls)[i].type : i \in 1..Len(Ctor(cls)) }

\* trail lists the concretes under construction, outermost first, when the
\* top-level request for root reached target: root is the outermost, each
\* next one is a dependency of the one before, target is a dependency of
\* the innermost; at top level the trail is empty and target is root
TrailOf(root, trail, target) ==
    IF trail = << >> THEN target = root
    ELSE /\ trail[1] = root
         /\ \A i \in 1..(Len(trail) - 1) :
               trail[i + 1] \in DependencyTypes(trail[i])
         /\ target \in DependencyTypes(trail[Len(trail)])
         /\ \A i, j \in 1..Len(trail) : i # j => trail[i] # trail[j]

(* C31: a make that throws the not-instantiable fault throws it for a       *)
(* concrete T that is not constructible, with the build-stack trail of the  *)
(* moment: the concretes under construction, outermost first, from the      *)
(* requested concrete down to the one T is a dependency of, and the empty   *)
(* trail when T itself was requested at top level.                          *)
C31_FaultCarriesTrail ==
    [][(last'.op = "make" /\ last'.err = NotInstantiableErr)
       => /\ last'.log # << >>
          /\ LET e == last'.log[Len(last'.log)]
             IN  /\ e.ev = "notInstantiable"
                 /\ ~IsInstantiable(e.who)
                 /\ TrailOf(last'.abs, e.trail, e.who)]_vars

(* C32: in every reachable state the reverse alias index is the exact       *)
(* inverse of the alias registry: alias a is listed under abstract b if and *)
(* only if the registry maps a to b, whatever alias, bind, instance, unbind *)
(* and flush calls were made.                                               *)
C32_ReverseIndexExact ==
    \A a, b \in Identifiers :
        (/\ MapHas(abstractAliases, b)
         /\ \E i \in 1..Len(abstractAliases[b]) : abstractAliases[b][i] = a)
        <=> (MapHas(aliases, a) /\ aliases[a] = b)

(* C33: a bind that throws the binding fault (no concrete given, abstract   *)
(* not constructible) leaves the container as it was: no registry changes,  *)
(* and the cached instance and the alias edge stored under the key before   *)
(* the call are still there after it.                                       *)
C33_FailedBindChangesNothing ==
    [][(last'.op = "bind" /\ last'.err = BindingErr)
       => UNCHANGED <<contextual, resolved, bindings, instances, aliases,
                      abstractAliases, extenders, buildStack, with,
                      reboundCallbacks, tags>>]_vars

-----------------------------------------------------------------------------
(* Makes that fault: Mid(t: IT) faults in its build, and with the per-type  *)
(* callback tr registered for the interface IA every make of another        *)
(* abstract faults in _fireResolvingCallbacks; Repo bound to itself, shared *)
(* or not, and the rebinding callback cb1 of Repo.                          *)

NextFault ==
    \/ steps < MaxSteps /\ DoResolving({"IA"}, {"tr"})
    \/ steps < MaxSteps /\ DoBind({"Repo"}, {NoConcrete})
    \/ steps < MaxSteps /\ DoMake({"Repo", "Mid", "Service"}, {NoParams})
    \/ steps < MaxSteps /\ DoRebinding({"Repo"}, {"cb1"})

SpecFault == Init /\ [][NextFault]_vars

(* C34: a make(A) that faults never caches and never marks A: the cache     *)
(* entry of A is after the call what it was before it, and so is            *)
(* resolved(A), so that the failed attempt makes no later bind(A) fire the  *)
(* rebound callbacks.                                                       *)
C34_FailedMakeLeavesNoMark ==
    [][(last'.op = "make" /\ last'.err # NoErr)
       => /\ MapHas(instances', last'.canon) = MapHas(instances, last'.canon)
          /\ MapHas(instances, last'.canon)
                => instances'[last'.canon] = instances[last'.canon]
          /\ Resolved([Container EXCEPT !.resolved = resolved',
                                        !.instances = instances'], last'.abs)
                = Resolved(Container, last'.abs)]_vars

-----------------------------------------------------------------------------
(* Override frames: makes of X(a: IA, y: Y) and Z(m: Mid = default, a: IA)  *)
(* with the parameter object {a: ...}, Y(a: IA) having a parameter of the   *)
(* same name, IA bound to Impl2, and Mid(t: IT) made buildable by a         *)
(* contextual binding of IT to Impl1 or to OptD(t: IT = default).           *)

NextFrame ==
    \/ steps < MaxSteps /\ DoMake({"X", "Z"}, {NoParams, ParamsA})
    \/ steps < MaxSteps /\ DoBind({"IA"}, {ClassConcrete("Impl2")})
    \/ steps < MaxSteps /\ DoWhen({"Mid"}, {"IT"},
                                  {ClassConcrete("Impl1"), ClassConcrete("OptD")})

SpecFrame == Init /\ [][NextFrame]_vars

(* C35: the named overrides of make(K, parameters) apply to the constructor *)
(* parameters of K only: a dependency of K built by the nested make gets    *)
(* none of its constructor parameters from parameters, also one of the same *)
(* name, and once the nested make has returned the frame of K is current    *)
(* again, so that every parameter of K that parameters names receives that  *)
(* value.                                                                   *)
C35_OverridesApplyToOwnParameters ==
    [][\A k \in Classes :
          (/\ last'.op = "make" /\ last'.abs = k /\ last'.err = NoErr
           /\ ~Bound(Container, k) /\ ~last'.ctx)
          => \A i \in 1..Len(Ctor(k)) :
                LET arg == last'.val.args[i] IN
                IF Ctor(k)[i].name \in DOMAIN last'.params
                THEN arg = last'.params[Ctor(k)[i].name]
                ELSE arg.kind = "obj" =>
                        \A j \in 1..Len(arg.args) :
                           \A n \in DOMAIN last'.params :
                              arg.args[j] # last'.params[n]]_vars

-----------------------------------------------------------------------------
(* Callbacks and built objects *)

\* how many times x occurs in the sequence
CountOf(seq, x) == Cardinality({ i \in 1..Len(seq) : seq[i] = x })

\* the objects the call built: those of the returned object graph that
\* did not exist when the call began
BuiltObjects(k) ==
    { v \in Nodes(k.val) : v.kind = "obj" /\ v.id >= k.firstId }

(* C36: the resolving and after-resolving callbacks fire once per object    *)
(* that is built: a make answered from the instance cache fires no callback *)
(* and builds nothing, and a make that builds calls every global callback   *)
(* with every object it built as many times as the callback is registered.  *)
C36_CallbacksOncePerBuiltObject ==
    [][(last'.op = "make" /\ last'.err = NoErr)
       => IF MapHas(instances, last'.canon) /\ ~last'.ctx
             /\ DOMAIN last'.params = {}
          THEN last'.log = << >> /\ nextId' = nextId
          ELSE \A v \in BuiltObjects(last') :
                 /\ \A i \in 1..Len(globalResolvingCallbacks) :
                       CountOf(last'.log,
                               Event("globalResolving",
                                     globalResolvingCallbacks[i], v, << >>))
                       = CountOf(globalResolvingCallbacks,
                                 globalResolvingCallbacks[i])
                 /\ \A i \in 1..Len(globalAfterResolvingCallbacks) :
                       CountOf(last'.log,
                               Event("globalAfterResolving",
                                     globalAfterResolvingCallbacks[i], v, << >>))
                       = CountOf(globalAfterResolvingCallbacks,
                                 globalAfterResolvingCallbacks[i])]_vars

-----------------------------------------------------------------------------
(* Flush and forget: IA bound to Impl1, shared or not, aliased as n1 and    *)
(* extended by e1, makes of IA and of Mid(t: IT), whose build faults, the   *)
(* contextual binding of IA under Mid, forgetInstance(IA) and flush().      *)

NextForget ==
    \/ steps < MaxForgetSteps /\ DoBind({"IA"}, {ClassConcrete("Impl1")})
    \/ steps < MaxForgetSteps /\ DoMake({"IA", "Mid"}, {NoParams})
    \/ steps < MaxForgetSteps /\ DoWhen({"Mid"}, {"IA"}, {ClassConcrete("Impl2")})
    \/ steps < MaxForgetSteps /\ DoAlias({"IA"}, {"n1"})
    \/ steps < MaxForgetSteps /\ DoExtend({"IA"}, {"e1"})
    \/ steps < MaxForgetSteps /\ DoForgetInstance({"IA"})
    \/ steps < MaxForgetSteps /\ DoFlush

SpecForget == Init /\ [][NextForget]_vars

(* C37: flush() empties the bindings, the cached instances, the aliases,    *)
(* the reverse alias index and the resolved set, so that bound(x) and       *)
(* resolved(x) are false for every x afterwards, and leaves the extenders,  *)
(* the tags, the contextual bindings and every callback list as they were;  *)
(* forgetInstance(A) removes the cached instance of A and nothing else, and *)
(* the make(A) of a shared A that follows it builds a new instance and      *)
(* caches it.                                                               *)
C37_FlushAndForget ==
    [][/\ last'.op = "flush"
          => /\ DOMAIN bindings' = {} /\ DOMAIN instances' = {}
             /\ DOMAIN aliases' = {} /\ DOMAIN abstractAliases' = {}
             /\ resolved' = {}
             /\ \A x \in Identifiers :
                   LET after == [Container EXCEPT !.bindings = bindings',
                                                  !.instances = instances',
                                                  !.aliases = aliases',
                                                  !.resolved = resolved']
                   IN  ~Bound(after, x) /\ ~Resolved(after, x)
             /\ UNCHANGED <<extenders, tags, contextual, reboundCallbacks,
                            globalResolvingCallbacks,
                            globalAfterResolvingCallbacks,
                            resolvingCallbacks, afterResolvingCallbacks>>
       /\ last'.op = "forgetInstance"
          => /\ instances' = MapDelete(instances, last'.abs)
             /\ UNCHANGED <<contextual, resolved, bindings, aliases,
                            abstractAliases, extenders, buildStack, with,
                            reboundCallbacks, tags, globalResolvingCallbacks,
                            globalAfterResolvingCallbacks, resolvingCallbacks,
                            afterResolvingCallbacks>>
       /\ (/\ last.op = "forgetInstance"
           /\ last'.op = "make" /\ last'.abs = last.abs
           /\ DOMAIN last'.params = {} /\ last'.err = NoErr
           /\ HasSharedBinding(last.abs))
          => /\ last'.val.kind = "obj" /\ last'.val.id >= nextId
             /\ MapHas(instances', last.abs)
             /\ instances'[last.abs] = last'.val]_vars

-----------------------------------------------------------------------------
(* The nested map of the contextual store on its own: set with the key      *)
(* paths of one or two keys over Y and IA, the two keys equal included, and *)
(* the implementations Impl1 and Impl2 as values.                           *)

\* the key paths: [k] and [k1, k2]
KeyPaths ==
    { << k >> : k \in {"Y", "IA"} }
        \cup { << k1, k2 >> : k1 \in {"Y", "IA"}, k2 \in {"Y", "IA"} }

\* this._contextual.set(keys, value)
DoNestedMapSet(Ks, Vs) ==
    \E keys \in Ks, v \in Vs :
        LET s == NestedMapSet(contextual, keys, v)
            c == [Container EXCEPT !.contextual = s.map]
        IN  Commit("set", ArrLast(keys), v, FALSE, NoParams,
                   IF s.err # NoErr THEN Throw(c, s.err) ELSE Return(c, Undef))

NextNestedMap ==
    \/ steps < MaxSteps /\ DoNestedMapSet(KeyPaths, {ClassConcrete("Impl1"),
                                                     ClassConcrete("Impl2")})

SpecNestedMap == Init /\ [][NextNestedMap]_vars

\* one key path is the beginning of the other
PrefixRelated(p, q) ==
    \/ Len(p) <= Len(q) /\ SubSeq(q, 1, Len(p)) = p
    \/ Len(q) <= Len(p) /\ SubSeq(p, 1, Len(q)) = q

(* C38: the nested map is a faithful multi-key map: has never fails; a      *)
(* set(keys, v) succeeds on every map, also when the two keys are equal or  *)
(* the first key was set with a single-key path, and after it has(keys) is  *)
(* true and get(keys) is v, while has and get answer for every other path   *)
(* that shares no beginning with keys what they answered before, so that a  *)
(* path never set has no entry.                                             *)
C38_NestedMapFaithful ==
    \A keys \in KeyPaths :
        /\ NestedMapHas(contextual, keys).err = NoErr
        /\ \A v \in {ClassConcrete("Impl1"), ClassConcrete("Impl2")} :
              LET s == NestedMapSet(contextual, keys, v) IN
              /\ s.err = NoErr
              /\ NestedMapHas(s.map, keys) = [val |-> TRUE, err |-> NoErr]
              /\ NestedMapGet(s.map, keys) = v
              /\ \A p \in KeyPaths :
                    ~PrefixRelated(p, keys)
                    => /\ NestedMapHas(s.map, p) = NestedMapHas(contextual, p)
                       /\ NestedMapGet(s.map, p) = NestedMapGet(contextual, p)
====
